---- MODULE Spec2Model ----
(***************************************************************************)
(* A model of AtlantaMunicipalClient (atlanta_court/client.py): the        *)
(* anti-forgery token bootstrap (_get_search_page), the search submission  *)
(* and the classification of its response (search), the DataTables page    *)
(* request (get_results_data), the case-details fetch with its two         *)
(* fragments (get_case_details_with_dockets) and the call that composes    *)
(* them (search_and_get_results).                                          *)
(*                                                                         *)
(* Text is modelled structurally.  A cookie name or a URL is a sequence of *)
(* lexical pieces, so that str.startswith and the `in` substring test are  *)
(* computed on the pieces; an HTML document is the sequence of its         *)
(* elements in document order, each with its tag and the attributes the    *)
(* client looks at, so that BeautifulSoup's find() is a first-match scan.  *)
(***************************************************************************)
EXTENDS Integers, Sequences, FiniteSets, TLC

VARIABLES
    csrf_token_body,    \* self._csrf_token_body
    csrf_cookie_name,   \* self._csrf_cookie_name
    cookies,            \* self.session.cookies, in iteration order
    pc,                 \* where each caller of search() stands
    landing_html,       \* response.text of the last landing page received
    result,             \* what the last finished search() returned or raised
    trace,              \* the requests sent so far, oldest first
    classified,         \* text and final url of the last response search() parsed
    first_seen,         \* the first (html, url, response_type) classified
    calls,              \* number of search() calls begun
    opc,                \* where the call of a composite method stands
    ocall,              \* that call: the method and its arguments
    case_data,          \* the case_data dict get_case_details_with_dockets builds
    docs,               \* the documents received during that call
    out,                \* what the last such call returned or raised
    call_start,         \* length of trace when that call began
    ocalls,             \* number of such calls begun
    form_args,          \* the arguments of a search() whose form is built
    form_data,          \* the form_data dict built from them
    cli,                \* the search_command under way: position, arguments, exit
    parse               \* a parse_case_details call: the soup and the record

svars == <<csrf_token_body, csrf_cookie_name, cookies, pc, landing_html,
           result, trace, classified, first_seen, calls>>
ovars == <<opc, ocall, case_data, docs, out, call_start, ocalls>>
fvars == <<form_args, form_data>>
vars == <<svars, ovars, fvars, cli, parse>>

\* ------------------------------------------------------------------ bounds
NumCallers == 2
MaxSearches == 3
MaxOrchCalls == 1

Callers == 1..NumCallers

\* --------------------------------------------------------------- constants
None == "None"
NoCookieName == << >>

CSRF_COOKIE_PREFIX == <<"__RequestVerificationToken", "_">>
CSRF_FIELD == "__RequestVerificationToken"
RESULTS_TABLE_ID == "gridSearchResults"
DETAILS_ROUTE == <<"/", "CourtCase.aspx", "/", "Details", "/">>
NO_RESULTS_MESSAGE == "No results found or search failed"

ERR_NO_COOKIE == "ValueError: Could not find CSRF token cookie in response"
ERR_NO_TOKEN == "ValueError: Could not find CSRF token in HTML"
ERR_HTTP == "requests.HTTPError"
ERR_CONNECTION == "requests.ConnectionError"

\* ------------------------------------------------------------ environment
SessionCookie == <<"ASP.NET_SessionId">>
RvtX9 == <<"__RequestVerificationToken", "_", "X9">>
RvtL0 == <<"__RequestVerificationToken", "_", "L0">>

InputEl(name, value) == [tag |-> "input", name |-> name, id |-> None, value |-> value]
TableEl(id) == [tag |-> "table", name |-> None, id |-> id, value |-> None]
DivEl(id) == [tag |-> "div", name |-> None, id |-> id, value |-> None]
NoElement == [tag |-> None, name |-> None, id |-> None, value |-> None]

LandingPages ==
    { << >>,
      <<InputEl(CSRF_FIELD, None)>>,
      <<InputEl(CSRF_FIELD, "")>>,
      <<InputEl(CSRF_FIELD, "tok1")>>,
      <<InputEl("search", "x"), InputEl(CSRF_FIELD, "tok2")>>,
      <<InputEl(CSRF_FIELD, ""), InputEl(CSRF_FIELD, "tok1")>> }

SearchUrl == <<"/", "BenchmarkWeb", "/", "CourtCase.aspx", "/", "CaseSearch">>
DetailsUrl == <<"/", "BenchmarkWeb", "/", "CourtCase.aspx", "/", "Details", "/", "2574263">>
DetailsNoSlashUrl == <<"/", "BenchmarkWeb", "/", "CourtCase.aspx", "/", "Details">>

SearchPages ==
    { <<DivEl("content")>>,
      <<DivEl("content"), TableEl(RESULTS_TABLE_ID)>>,
      <<DivEl(RESULTS_TABLE_ID)>>,
      <<TableEl("gridOther")>> }

SearchUrls == {SearchUrl, DetailsUrl, DetailsNoSlashUrl}

ConnectionFailure ==
    [connected |-> FALSE, status |-> 0, set_cookies |-> << >>, expired |-> {},
     html |-> << >>, url |-> << >>]

LandingResponses ==
    {ConnectionFailure} \cup
    [connected : {TRUE}, status : {200, 500},
     set_cookies : { << >>, <<SessionCookie>>, <<SessionCookie, RvtX9>>,
                     <<RvtL0>> },
     expired : { {}, {RvtX9, RvtL0} },
     html : LandingPages, url : {<< >>}]

SearchResponses ==
    {ConnectionFailure} \cup
    [connected : {TRUE}, status : {200, 403, 500},
     set_cookies : { << >>, <<SessionCookie>> },
     expired : { {} },
     html : SearchPages, url : SearchUrls]

\* ----------------------------------------------------------------- helpers
Min(S) == CHOOSE x \in S : \A y \in S : x <= y

Last(s) == s[Len(s)]

Range(s) == {s[i] : i \in 1..Len(s)}

\* str.startswith
StartsWith(s, prefix) ==
    Len(s) >= Len(prefix) /\ SubSeq(s, 1, Len(prefix)) = prefix

\* the `in` operator on strings: a contiguous occurrence
Contains(s, sub) ==
    \E i \in 0..(Len(s) - Len(sub)) : SubSeq(s, i + 1, i + Len(sub)) = sub

\* a presence test written `is None`, which lets the empty string through
FalsyNoneOnly(v) == v = None

\* Python truthiness of an Optional[str]
Falsy(v) == v = None \/ v = ""

\* response.raise_for_status()
IsHttpError(status) == status >= 400 /\ status < 600

\* the cookie jar after a response: expired cookies leave it, new ones are
\* appended in the order the response sets them
RECURSIVE AppendNew(_, _)
AppendNew(jar, names) ==
    IF names = << >> THEN jar
    ELSE AppendNew(IF Head(names) \in Range(jar) THEN jar
                   ELSE Append(jar, Head(names)), Tail(names))

ExtractCookies(jar, resp) ==
    AppendNew(SelectSeq(jar, LAMBDA n : n \notin resp.expired), resp.set_cookies)

\* soup.find('input', {'name': name}): the first match in document order
FindInput(html, name) ==
    LET hits == {i \in 1..Len(html) : html[i].tag = "input" /\ html[i].name = name}
    IN  IF hits = {} THEN NoElement ELSE html[Min(hits)]

\* soup.find('table', {'id': id})
FindTable(html, id) ==
    LET hits == {i \in 1..Len(html) : html[i].tag = "table" /\ html[i].id = id}
    IN  IF hits = {} THEN NoElement ELSE html[Min(hits)]

\* the loop over session.cookies: the first name with the prefix is stored,
\* and when none has it the field keeps what it held
ScanCookieName(jar, held) ==
    LET hits == {i \in 1..Len(jar) : StartsWith(jar[i], CSRF_COOKIE_PREFIX)}
    IN  IF hits = {} THEN held ELSE jar[Min(hits)]

NoResult ==
    [kind |-> "none", error |-> None, success |-> FALSE,
     response_type |-> None, message |-> None, html |-> << >>, url |-> << >>]

Raised(err) == [NoResult EXCEPT !.kind = "raised", !.error = err]

\* the two tests taken in the other order: the final URL before the table
ClassifyUrlFirst(html, url) ==
    IF Contains(url, DETAILS_ROUTE)
    THEN [success |-> TRUE, response_type |-> "case_details", message |-> None]
    ELSE IF FindTable(html, RESULTS_TABLE_ID) # NoElement
    THEN [success |-> TRUE, response_type |-> "search_results", message |-> None]
    ELSE [success |-> FALSE, response_type |-> "unknown", message |-> NO_RESULTS_MESSAGE]

\* the route looked for at the start of the URL instead of anywhere in it
ClassifyUrlPrefix(html, url) ==
    IF FindTable(html, RESULTS_TABLE_ID) # NoElement
    THEN [success |-> TRUE, response_type |-> "search_results", message |-> None]
    ELSE IF StartsWith(url, DETAILS_ROUTE)
    THEN [success |-> TRUE, response_type |-> "case_details", message |-> None]
    ELSE [success |-> FALSE, response_type |-> "unknown", message |-> NO_RESULTS_MESSAGE]

\* the route written without its closing slash
ClassifyLooseRoute(html, url) ==
    IF FindTable(html, RESULTS_TABLE_ID) # NoElement
    THEN [success |-> TRUE, response_type |-> "search_results", message |-> None]
    ELSE IF Contains(url, SubSeq(DETAILS_ROUTE, 1, Len(DETAILS_ROUTE) - 1))
    THEN [success |-> TRUE, response_type |-> "case_details", message |-> None]
    ELSE [success |-> FALSE, response_type |-> "unknown", message |-> NO_RESULTS_MESSAGE]

\* a results table remembered from the search before
ClassifySticky(html, url) ==
    IF FindTable(html, RESULTS_TABLE_ID) # NoElement
       \/ result.response_type = "search_results"
    THEN [success |-> TRUE, response_type |-> "search_results", message |-> None]
    ELSE IF Contains(url, DETAILS_ROUTE)
    THEN [success |-> TRUE, response_type |-> "case_details", message |-> None]
    ELSE [success |-> FALSE, response_type |-> "unknown", message |-> NO_RESULTS_MESSAGE]

\* the classification at the end of search()
Classify(html, url) ==
    LET results_table == FindTable(html, RESULTS_TABLE_ID)
        is_case_details == Contains(url, DETAILS_ROUTE)
    IN  IF results_table # NoElement
        THEN [success |-> TRUE, response_type |-> "search_results", message |-> None]
        ELSE IF is_case_details
        THEN [success |-> TRUE, response_type |-> "case_details", message |-> None]
        ELSE [success |-> FALSE, response_type |-> "unknown",
              message |-> NO_RESULTS_MESSAGE]

Returned(html, url) ==
    LET k == Classify(html, url)
    IN  [kind |-> "returned", error |-> None, success |-> k.success,
         response_type |-> k.response_type, message |-> k.message,
         html |-> html, url |-> url]

GetEvent(outcome) == [op |-> "landing_get", token |-> None, outcome |-> outcome]
PostEvent(token, outcome) == [op |-> "search_post", token |-> token, outcome |-> outcome]

\* ------------------------------------------------------------------ dicts
\* a Python dict with string keys is a function on its key set
EmptyDict == << >>

Put(d, k, v) == [x \in DOMAIN d \cup {k} |-> IF x = k THEN v ELSE d[x]]

\* dict.update
Update(d, e) == [x \in DOMAIN d \cup DOMAIN e |-> IF x \in DOMAIN e THEN e[x] ELSE d[x]]

\* dict.get(k, default)
Get(d, k, default) == IF k \in DOMAIN d THEN d[k] ELSE default

\* ------------------------------------------------- composite calls: values
NoCall == [op |-> None, max_results |-> 0, url |-> << >>]
NoOut == [kind |-> "none", error |-> None, value |-> << >>]
NoDoc == [none |-> TRUE]
NoDocs == [details |-> NoDoc, details_url |-> << >>, summary |-> NoDoc,
           dockets |-> NoDoc, json |-> NoDoc, status |-> 0]
NoFormArgs == [none |-> TRUE]
NoCli == [pc |-> "none"]
NoParse == [pc |-> "none"]

OutRaised(err) == [kind |-> "raised", error |-> err, value |-> << >>]
OutReturned(v) == [kind |-> "returned", error |-> None, value |-> v]

\* -------------------------------------------------------------------- Init
Init ==
    /\ csrf_token_body = None
    /\ csrf_cookie_name = NoCookieName
    /\ cookies = << >>
    /\ pc = [c \in Callers |-> "idle"]
    /\ landing_html = << >>
    /\ result = NoResult
    /\ trace = << >>
    /\ classified = [html |-> << >>, url |-> << >>]
    /\ first_seen = << >>
    /\ calls = 0
    /\ opc = "idle"
    /\ ocall = NoCall
    /\ case_data = EmptyDict
    /\ docs = NoDocs
    /\ out = NoOut
    /\ call_start = 0
    /\ ocalls = 0
    /\ form_args = NoFormArgs
    /\ form_data = EmptyDict
    /\ cli = NoCli
    /\ parse = NoParse

\* ----------------------------------------------------------------- actions
\* search() without the test of the cached token: every call bootstraps
SearchBeginNoCache(c) ==
    /\ pc[c] = "idle"
    /\ calls < MaxSearches
    /\ calls' = calls + 1
    /\ pc' = [pc EXCEPT ![c] = "get_search_page"]
    /\ UNCHANGED <<csrf_token_body, csrf_cookie_name, cookies, landing_html,
                   result, trace, classified, first_seen>>

\* search(), its first statement: `if not self._csrf_token_body`
SearchBegin(c) ==
    /\ pc[c] = "idle"
    /\ calls < MaxSearches
    /\ calls' = calls + 1
    /\ pc' = [pc EXCEPT ![c] = IF Falsy(csrf_token_body) THEN "get_search_page"
                                                        ELSE "post"]
    /\ UNCHANGED <<csrf_token_body, csrf_cookie_name, cookies, landing_html,
                   result, trace, classified, first_seen>>

\* _get_search_page(): the landing-page GET and what is made of its response.
\* The cookie jar takes the response's cookies before raise_for_status().
\* The name found by the scan is written to the field before the token is
\* looked for, so a run that fails on the token keeps it.  (`value` is not a
\* multi-valued attribute, so csrf_input.get('value') is a string or None.)
GetSearchPage(c) ==
    /\ pc[c] = "get_search_page"
    /\ \E resp \in LandingResponses :
        IF ~resp.connected
        THEN /\ trace' = Append(trace, GetEvent(ERR_CONNECTION))
             /\ result' = Raised(ERR_CONNECTION)
             /\ pc' = [pc EXCEPT ![c] = "idle"]
             /\ UNCHANGED <<csrf_token_body, csrf_cookie_name, cookies, landing_html>>
        ELSE
        LET jar == ExtractCookies(cookies, resp)
            name == ScanCookieName(jar, csrf_cookie_name)
            csrf_input == FindInput(resp.html, CSRF_FIELD)
        IN  /\ cookies' = jar
            /\ landing_html' = resp.html
            /\ IF IsHttpError(resp.status)
               THEN /\ trace' = Append(trace, GetEvent(ERR_HTTP))
                    /\ result' = Raised(ERR_HTTP)
                    /\ pc' = [pc EXCEPT ![c] = "idle"]
                    /\ UNCHANGED <<csrf_token_body, csrf_cookie_name>>
               ELSE IF name = NoCookieName
               THEN /\ trace' = Append(trace, GetEvent(ERR_NO_COOKIE))
                    /\ result' = Raised(ERR_NO_COOKIE)
                    /\ pc' = [pc EXCEPT ![c] = "idle"]
                    /\ csrf_cookie_name' = name
                    /\ UNCHANGED csrf_token_body
               ELSE IF csrf_input = NoElement \/ Falsy(csrf_input.value)
               THEN /\ trace' = Append(trace, GetEvent(ERR_NO_TOKEN))
                    /\ result' = Raised(ERR_NO_TOKEN)
                    /\ pc' = [pc EXCEPT ![c] = "idle"]
                    /\ csrf_cookie_name' = name
                    /\ UNCHANGED csrf_token_body
               ELSE /\ trace' = Append(trace, GetEvent("ok"))
                    /\ csrf_cookie_name' = name
                    /\ csrf_token_body' = csrf_input.value
                    /\ pc' = [pc EXCEPT ![c] = "post"]
                    /\ UNCHANGED result
    /\ UNCHANGED <<classified, first_seen, calls>>

\* search() without raise_for_status(): an error page is parsed like any other
SubmitSearchNoRaise(c) ==
    /\ pc[c] = "post"
    /\ \E resp \in SearchResponses :
        IF ~resp.connected
        THEN /\ trace' = Append(trace, PostEvent(csrf_token_body, ERR_CONNECTION))
             /\ result' = Raised(ERR_CONNECTION)
             /\ UNCHANGED <<cookies, classified, first_seen>>
        ELSE
        /\ cookies' = ExtractCookies(cookies, resp)
        /\ trace' = Append(trace, PostEvent(csrf_token_body,
                         IF IsHttpError(resp.status) THEN ERR_HTTP ELSE "ok"))
        /\ classified' = [html |-> resp.html, url |-> resp.url]
        /\ result' = Returned(resp.html, resp.url)
        /\ first_seen' = IF first_seen = << >>
                          THEN <<resp.html, resp.url, result'.response_type>>
                          ELSE first_seen
    /\ pc' = [pc EXCEPT ![c] = "idle"]
    /\ UNCHANGED <<csrf_token_body, csrf_cookie_name, landing_html, calls>>

\* search() dropping the cached token when the submission is rejected
SubmitSearchClearsToken(c) ==
    /\ pc[c] = "post"
    /\ \E resp \in SearchResponses :
        IF ~resp.connected
        THEN /\ trace' = Append(trace, PostEvent(csrf_token_body, ERR_CONNECTION))
             /\ result' = Raised(ERR_CONNECTION)
             /\ UNCHANGED <<cookies, classified, first_seen, csrf_token_body>>
        ELSE
        /\ cookies' = ExtractCookies(cookies, resp)
        /\ IF IsHttpError(resp.status)
           THEN /\ trace' = Append(trace, PostEvent(csrf_token_body, ERR_HTTP))
                /\ result' = Raised(ERR_HTTP)
                /\ csrf_token_body' = None
                /\ UNCHANGED <<classified, first_seen>>
           ELSE /\ trace' = Append(trace, PostEvent(csrf_token_body, "ok"))
                /\ classified' = [html |-> resp.html, url |-> resp.url]
                /\ result' = Returned(resp.html, resp.url)
                /\ first_seen' = IF first_seen = << >>
                                  THEN <<resp.html, resp.url, result'.response_type>>
                                  ELSE first_seen
                /\ UNCHANGED csrf_token_body
    /\ pc' = [pc EXCEPT ![c] = "idle"]
    /\ UNCHANGED <<csrf_cookie_name, landing_html, calls>>

\* search(), from the form data to the returned dict
SubmitSearch(c) ==
    /\ pc[c] = "post"
    /\ \E resp \in SearchResponses :
        IF ~resp.connected
        THEN /\ trace' = Append(trace, PostEvent(csrf_token_body, ERR_CONNECTION))
             /\ result' = Raised(ERR_CONNECTION)
             /\ UNCHANGED <<cookies, classified, first_seen>>
        ELSE
        /\ cookies' = ExtractCookies(cookies, resp)
        /\ IF IsHttpError(resp.status)
           THEN /\ trace' = Append(trace, PostEvent(csrf_token_body, ERR_HTTP))
                /\ result' = Raised(ERR_HTTP)
                /\ UNCHANGED <<classified, first_seen>>
           ELSE /\ trace' = Append(trace, PostEvent(csrf_token_body, "ok"))
                /\ classified' = [html |-> resp.html, url |-> resp.url]
                /\ result' = Returned(resp.html, resp.url)
                /\ first_seen' = IF first_seen = << >>
                                  THEN <<resp.html, resp.url, result'.response_type>>
                                  ELSE first_seen
    /\ pc' = [pc EXCEPT ![c] = "idle"]
    /\ UNCHANGED <<csrf_token_body, csrf_cookie_name, landing_html, calls>>

\* one caller at a time: search() is entered only when no call is under way
SearchBeginAlone(c) ==
    /\ \A d \in Callers : pc[d] = "idle"
    /\ SearchBegin(c)

Next ==
    \E c \in Callers :
        \/ SearchBeginAlone(c) /\ UNCHANGED <<ovars, fvars, cli, parse>>
        \/ GetSearchPage(c) /\ UNCHANGED <<ovars, fvars, cli, parse>>
        \/ SubmitSearch(c) /\ UNCHANGED <<ovars, fvars, cli, parse>>

Spec == Init /\ [][Next]_vars

\* callers on several threads sharing the client
NextShared ==
    \E c \in Callers :
        \/ SearchBegin(c) /\ UNCHANGED <<ovars, fvars, cli, parse>>
        \/ GetSearchPage(c) /\ UNCHANGED <<ovars, fvars, cli, parse>>
        \/ SubmitSearch(c) /\ UNCHANGED <<ovars, fvars, cli, parse>>

SpecShared == Init /\ [][NextShared]_vars

TypeOK ==
    /\ pc \in [Callers -> {"idle", "get_search_page", "post"}]
    /\ calls \in 0..MaxSearches
    /\ Len(trace) <= 2 * MaxSearches

\* ------------------------------------------------------- get_results_data
NUM_COLUMNS == 6
DEFAULT_LENGTH == 50
DEFAULT_ORDER_COLUMN == 4
DEFAULT_MAX_RESULTS == 50

ERR_JSON == "json.JSONDecodeError"
ERR_ATTRIBUTE == "AttributeError"

\* the DataTables request parameters
ColumnParams(i) ==
    LET col == "columns[" \o ToString(i) \o "]"
    IN  [k \in {col \o "[data]", col \o "[searchable]", col \o "[orderable]",
                col \o "[search][value]", col \o "[search][regex]"} |->
            IF k = col \o "[data]" THEN ToString(i)
            ELSE IF k = col \o "[searchable]" THEN "true"
            ELSE IF k = col \o "[orderable]" THEN (IF i > 0 THEN "true" ELSE "false")
            ELSE IF k = col \o "[search][value]" THEN ""
            ELSE "false"]

RECURSIVE AddColumns(_, _)
AddColumns(params, i) ==
    IF i = NUM_COLUMNS THEN params
    ELSE AddColumns(Update(params, ColumnParams(i)), i + 1)

ResultsParams(start, length, order_column, order_direction) ==
    AddColumns(
        [k \in {"draw", "start", "length", "search[value]", "search[regex]",
                "order[0][column]", "order[0][dir]"} |->
            IF k = "draw" THEN "1"
            ELSE IF k = "start" THEN ToString(start)
            ELSE IF k = "length" THEN ToString(length)
            ELSE IF k = "search[value]" THEN ""
            ELSE IF k = "search[regex]" THEN "false"
            ELSE IF k = "order[0][column]" THEN ToString(order_column)
            ELSE order_direction], 0)

\* what response.json() finds in the body
InvalidJson == [valid |-> FALSE, dict |-> FALSE, body |-> EmptyDict]
JsonList == [valid |-> TRUE, dict |-> FALSE, body |-> EmptyDict]
JsonDict(d) == [valid |-> TRUE, dict |-> TRUE, body |-> d]

JsonBodies ==
    { InvalidJson, JsonList,
      JsonDict([draw |-> 1]),
      JsonDict([draw |-> 1, recordsTotal |-> 0, recordsFiltered |-> 0, data |-> << >>]),
      JsonDict([draw |-> 1, recordsTotal |-> 2, recordsFiltered |-> 2,
                data |-> <<"row_2", "row_1">>]) }

ResultsResponses ==
    {[ConnectionFailure EXCEPT !.html = InvalidJson]} \cup
    [connected : {TRUE}, status : {200, 500}, set_cookies : { << >> },
     expired : { {} }, html : JsonBodies, url : { << >> }]

MaxResultsChoices == {5, DEFAULT_MAX_RESULTS}
StartChoices == {0, DEFAULT_LENGTH}

ResultsEvent(params, outcome) ==
    [op |-> "results_post", token |-> None, outcome |-> outcome,
     start |-> params["start"], length |-> params["length"]]

\* a body that is not JSON taken for an empty page
ResultsDataOutcomeLenient(resp) ==
    IF ~resp.connected THEN OutRaised(ERR_CONNECTION)
    ELSE IF IsHttpError(resp.status) THEN OutRaised(ERR_HTTP)
    ELSE IF ~resp.html.valid THEN OutReturned(EmptyDict)
    ELSE IF ~resp.html.dict THEN OutRaised(ERR_ATTRIBUTE)
    ELSE OutReturned(resp.html.body)

\* what get_results_data returns or raises on a response
ResultsDataOutcome(resp) ==
    IF ~resp.connected THEN OutRaised(ERR_CONNECTION)
    ELSE IF IsHttpError(resp.status) THEN OutRaised(ERR_HTTP)
    ELSE IF ~resp.html.valid THEN OutRaised(ERR_JSON)
    ELSE IF ~resp.html.dict THEN OutRaised(ERR_ATTRIBUTE)
    ELSE OutReturned(resp.html.body)

\* get_results_data(start, length): the POST and the record of it
GetResultsData(start, length, resp) ==
    LET params == ResultsParams(start, length, DEFAULT_ORDER_COLUMN, "desc")
        o == ResultsDataOutcome(resp)
    IN  /\ trace' = Append(trace, ResultsEvent(params,
                         IF o.kind = "raised" THEN o.error ELSE "ok"))
        /\ cookies' = IF resp.connected THEN ExtractCookies(cookies, resp) ELSE cookies
        /\ docs' = [NoDocs EXCEPT !.json = IF resp.connected THEN resp.html ELSE NoDoc,
                                  !.status = resp.status]

\* ------------------------------------------------------------ page text
\* Text in a page is a sequence of tokens; a token is a run of characters of
\* one kind (a word, digits, a blank, a colon ...).
Blank == " "

\* str.lower on a token
Lower(t) ==
    CASE t = "Case" -> "case"
      [] t = "Number" -> "number"
      [] t = "Status" -> "status"
      [] t = "Judge" -> "judge"
      [] t = "Date" -> "date"
      [] t = "Description" -> "description"
      [] t = "Docket" -> "docket"
      [] t = "History" -> "history"
      [] t = "URL" -> "url"
      [] OTHER -> t

RECURSIVE Concat(_)
Concat(toks) == IF toks = << >> THEN "" ELSE Head(toks) \o Concat(Tail(toks))

RECURSIVE LStrip(_, _)
LStrip(toks, ch) ==
    IF toks # << >> /\ Head(toks) = ch THEN LStrip(Tail(toks), ch) ELSE toks

RECURSIVE RStrip(_, _)
RStrip(toks, ch) ==
    IF toks # << >> /\ Last(toks) = ch
    THEN RStrip(SubSeq(toks, 1, Len(toks) - 1), ch) ELSE toks

\* get_text(strip=True), still as tokens
Strip(toks) == RStrip(LStrip(toks, Blank), Blank)

\* get_text(strip=True)
GetText(toks) == Concat(Strip(toks))

\* get_text(strip=True).rstrip(':')
LabelText(toks) == Concat(RStrip(Strip(toks), ":"))

\* text.lower().replace(' ', '_')
SnakeCase(toks) ==
    Concat([i \in 1..Len(toks) |-> IF toks[i] = Blank THEN "_" ELSE Lower(toks[i])])

\* label.lower().replace(' ', '_') for a detail label
LabelKey(toks) == SnakeCase(RStrip(Strip(toks), ":"))

\* a header cell's key
HeaderKey(toks) == SnakeCase(Strip(toks))

\* ------------------------------------------------------- the docket table
NoImg == [none |-> TRUE]
NoTable == [none |-> TRUE]

NoAnchor == [present |-> FALSE, text |-> << >>]

Cell(toks) == [text |-> toks, img |-> NoImg, a |-> NoAnchor]
ImgCell(rel, id) == [text |-> << >>, img |-> [rel |-> rel, id |-> id], a |-> NoAnchor]
LinkCell(toks) == [text |-> toks, img |-> NoImg, a |-> [present |-> TRUE, text |-> toks]]

\* the docket id of a row, from the image in its first cell: `rel` (a list,
\* being a multi-valued attribute) before `id`, and `img_` taken out of the id
DocketId(cells) ==
    LET img == cells[1].img
    IN  IF img = NoImg THEN ""
        ELSE IF img.rel # << >> THEN img.rel[1]
        ELSE IF img.id # << >> THEN Concat(SelectSeq(img.id, LAMBDA t : t # "img_"))
        ELSE ""

\* a body row keyed by position whatever the headers are
DocketEntryGenericOnly(headers, cells) ==
    Put([k \in {"column_" \o ToString(i - 1) : i \in 1..Len(cells)} |->
            GetText(cells[CHOOSE i \in 1..Len(cells) :
                k = "column_" \o ToString(i - 1)].text)],
        "id", DocketId(cells))

\* one body row of the docket table as a dict
DocketEntry(headers, cells) ==
    LET n == Len(cells)
        named == [k \in {headers[i] : i \in 1..Len(headers)} |->
                    GetText(cells[CHOOSE i \in 1..n :
                        /\ headers[i] = k
                        /\ \A j \in 1..n : headers[j] = k => j <= i].text)]
        generic == [k \in {"column_" \o ToString(i - 1) : i \in 1..n} |->
                    GetText(cells[CHOOSE i \in 1..n :
                        k = "column_" \o ToString(i - 1)].text)]
    IN  IF headers # << >> /\ Len(headers) = n
        THEN Put([k \in DOMAIN named \ {""} |-> named[k]], "id", DocketId(cells))
        ELSE Put(generic, "id", DocketId(cells))

\* the docket grammar: header keys from thead, one entry per body row that
\* has cells.  A table's `thead` is the texts of its th cells and its `tbody`
\* the cells of its rows; each is empty when the table has no such part.
ParseDocketTable(table) ==
    LET headers == [i \in 1..Len(table.thead) |-> HeaderKey(table.thead[i])]
        rows == SelectSeq(table.tbody, LAMBDA cells : cells # << >>)
    IN  [i \in 1..Len(rows) |-> DocketEntry(headers, rows[i])]

DOCKETS_TABLE_ID == "gridDockets"

\* soup.find('table', {'id': id}) on a page's tables
FindPageTable(tables, id) ==
    LET hits == {i \in 1..Len(tables) : tables[i].id = id}
    IN  IF hits = {} THEN NoTable ELSE tables[Min(hits)]

\* ------------------------------------------------------ parse_case_details
\* A details page: its title and case heading (`present` tells whether the
\* tag is there), its scripts, its tables in document order, its parties and
\* charges sections, and the two script variables the fragments need.
UpperTokens == {"TR", "STATE", "VS", "DOE", "Case", "Number", "Status", "Judge"}
DigitTokens == {"99", "268487", "24", "2574263"}

\* title_text.split('-')[0]
FirstPart(toks) ==
    LET dashes == {i \in 1..Len(toks) : toks[i] = "-"}
    IN  IF dashes = {} THEN toks ELSE SubSeq(toks, 1, Min(dashes) - 1)

\* re.search(r'[A-Z]+.*\d+', text): a capital with a digit somewhere after it
LooksLikeCaseNumber(toks) ==
    \E i, j \in 1..Len(toks) :
        i < j /\ toks[i] \in UpperTokens /\ toks[j] \in DigitTokens

\* the case number from the scripts: the first script that has one
ScriptCaseNumber(scripts) ==
    LET hits == {i \in 1..Len(scripts) : scripts[i].case_number # None}
    IN  IF hits = {} THEN None ELSE scripts[Min(hits)].case_number

\* the three methods for the case number, each tried only when the ones
\* before it left nothing
ExtractCaseNumber(page) ==
    LET potential_case == Strip(FirstPart(Strip(page.title.text)))
        m1 == IF page.title.present /\ LooksLikeCaseNumber(potential_case)
              THEN Concat(potential_case) ELSE None
        m2 == IF Falsy(m1) /\ page.heading.present
              THEN GetText(page.heading.text) ELSE m1
        m3 == IF Falsy(m2) /\ ScriptCaseNumber(page.scripts) # None
              THEN ScriptCaseNumber(page.scripts) ELSE m2
    IN  m3

\* table.find_all('tr'): the header row, when there is one, then the body rows
TableRows(table) ==
    (IF table.thead = << >> THEN << >>
     ELSE << [i \in 1..Len(table.thead) |-> Cell(table.thead[i])] >>) \o table.tbody

RECURSIVE AllRows(_)
AllRows(tables) ==
    IF tables = << >> THEN << >>
    ELSE (IF Head(tables).class_table /\ Head(tables).id # DOCKETS_TABLE_ID
          THEN TableRows(Head(tables)) ELSE << >>) \o AllRows(Tail(tables))

\* the label/value rows, a label kept at the value it was first seen with
RECURSIVE PutRowsFirstWins(_, _)
PutRowsFirstWins(d, rows) ==
    IF rows = << >> THEN d
    ELSE LET cells == Head(rows)
             keep == /\ Len(cells) >= 2
                     /\ LabelText(cells[1].text) # ""
                     /\ GetText(cells[2].text) # ""
                     /\ LabelKey(cells[1].text) \notin DOMAIN d
         IN  PutRowsFirstWins(IF keep THEN Put(d, LabelKey(cells[1].text),
                                              GetText(cells[2].text))
                              ELSE d, Tail(rows))

\* the label/value rows written into the record in document order
RECURSIVE PutRows(_, _)
PutRows(d, rows) ==
    IF rows = << >> THEN d
    ELSE LET cells == Head(rows)
             keep == /\ Len(cells) >= 2
                     /\ LabelText(cells[1].text) # ""
                     /\ GetText(cells[2].text) # ""
         IN  PutRows(IF keep THEN Put(d, LabelKey(cells[1].text), GetText(cells[2].text))
                     ELSE d, Tail(rows))

RECURSIVE JoinWith(_, _)
JoinWith(strs, sep) ==
    IF strs = << >> THEN ""
    ELSE IF Len(strs) = 1 THEN strs[1]
    ELSE strs[1] \o sep \o JoinWith(Tail(strs), sep)

PartyList(rows) ==
    LET ok == SelectSeq(rows, LAMBDA cells : Len(cells) >= 2)
    IN  [i \in 1..Len(ok) |->
            [name |-> GetText(ok[i][1].text), type |-> GetText(ok[i][2].text)]]

ChargeList(rows) ==
    LET texts == [i \in 1..Len(rows) |->
                    JoinWith([j \in 1..Len(rows[i]) |-> GetText(rows[i][j].text)], " ")]
    IN  SelectSeq(texts, LAMBDA t : t # "")

\* the record with a docket_history whether or not any entry was found
ParseCaseDetailsAlwaysDockets(page) ==
    LET case_number == ExtractCaseNumber(page)
        d0 == IF Falsy(case_number) THEN EmptyDict
              ELSE Put(EmptyDict, "case_number", case_number)
        d1 == PutRows(d0, AllRows(page.tables))
        docket_table == FindPageTable(page.tables, DOCKETS_TABLE_ID)
        docket_entries == IF docket_table = NoTable THEN << >>
                          ELSE ParseDocketTable(docket_table)
    IN  Put(d1, "docket_history", docket_entries)

\* parse_case_details(soup)
ParseCaseDetails(page) ==
    LET case_number == ExtractCaseNumber(page)
        d0 == IF Falsy(case_number) THEN EmptyDict
              ELSE Put(EmptyDict, "case_number", case_number)
        d1 == PutRows(d0, AllRows(page.tables))
        parties == IF page.parties.present THEN PartyList(page.parties.rows) ELSE << >>
        d2 == IF parties # << >> THEN Put(d1, "parties", parties) ELSE d1
        charges == IF page.charges.present THEN ChargeList(page.charges.rows) ELSE << >>
        d3 == IF charges # << >> THEN Put(d2, "charges", charges) ELSE d2
        docket_table == FindPageTable(page.tables, DOCKETS_TABLE_ID)
        docket_entries == IF docket_table = NoTable THEN << >>
                          ELSE ParseDocketTable(docket_table)
    IN  IF docket_entries # << >> THEN Put(d3, "docket_history", docket_entries) ELSE d3

\* -------------------------------------------------------- get_case_summary
NBSP == "U+00A0"
EmptyValues == {"", NBSP, "&#160;"}

SUMMARY_PARTIES_ID == "gridParties"
SUMMARY_CHARGES_ID == "gridCharges"

\* zip(dts, dds) of every dl-horizontal list, in document order
RECURSIVE AllPairs(_)
AllPairs(dls) ==
    IF dls = << >> THEN << >>
    ELSE LET dl == Head(dls)
         IN  [i \in 1..Min({Len(dl.dts), Len(dl.dds)}) |->
                 [dt |-> dl.dts[i], dd |-> dl.dds[i]]] \o AllPairs(Tail(dls))

RECURSIVE PutPairs(_, _)
PutPairs(d, pairs) ==
    IF pairs = << >> THEN d
    ELSE LET label == LabelText(Head(pairs).dt)
             value == GetText(Head(pairs).dd)
         IN  PutPairs(IF label # "" /\ value \notin EmptyValues
                      THEN Put(d, LabelKey(Head(pairs).dt), value) ELSE d,
                      Tail(pairs))

SummaryParty(cells) ==
    LET base == [type |-> GetText(cells[1].text),
                 name |-> IF cells[2].a.present THEN GetText(cells[2].a.text)
                          ELSE GetText(cells[2].text)]
        attorney == IF Len(cells) > 2 THEN GetText(cells[3].text) ELSE ""
    IN  IF attorney # "" THEN Put(base, "attorney", attorney) ELSE base

SummaryParties(table) ==
    LET ok == SelectSeq(table.tbody, LAMBDA cells : Len(cells) >= 2)
    IN  [i \in 1..Len(ok) |-> SummaryParty(ok[i])]

SummaryCharge(headers, cells) ==
    LET n == Len(cells)
        full == {i \in 1..n : GetText(cells[i].text) \notin EmptyValues}
        KeyOf(i) == IF headers # << >> /\ Len(headers) = n THEN headers[i]
                    ELSE "field_" \o ToString(i - 1)
    IN  [k \in {KeyOf(i) : i \in full} |->
            GetText(cells[CHOOSE i \in full :
                /\ KeyOf(i) = k
                /\ \A j \in full : KeyOf(j) = k => j <= i].text)]

SummaryCharges(table) ==
    LET headers == [i \in 1..Len(table.thead) |-> HeaderKey(table.thead[i])]
        rows == SelectSeq(table.tbody, LAMBDA cells : cells # << >>)
        all == [i \in 1..Len(rows) |-> SummaryCharge(headers, rows[i])]
    IN  SelectSeq(all, LAMBDA c : DOMAIN c # {})

\* the summary_data of get_case_summary
ParseCaseSummary(page) ==
    LET d1 == PutPairs(EmptyDict, AllPairs(page.dls))
        parties_table == FindPageTable(page.tables, SUMMARY_PARTIES_ID)
        parties == IF parties_table = NoTable THEN << >>
                   ELSE SummaryParties(parties_table)
        d2 == IF parties # << >> THEN Put(d1, "parties", parties) ELSE d1
        charges_table == FindPageTable(page.tables, SUMMARY_CHARGES_ID)
        charges == IF charges_table = NoTable THEN << >>
                   ELSE SummaryCharges(charges_table)
    IN  IF charges # << >> THEN Put(d2, "charges", charges) ELSE d2

\* -------------------------------------------------------- get_case_dockets
\* the `success` and `docket_history` of get_case_dockets
ParseCaseDockets(page) ==
    LET docket_table == FindPageTable(page.tables, DOCKETS_TABLE_ID)
    IN  IF docket_table = NoTable
        THEN [success |-> FALSE, docket_history |-> << >>]
        ELSE [success |-> TRUE, docket_history |-> ParseDocketTable(docket_table)]

\* ---------------------------------------------- the pages the site serves
Table(id, class_table, thead, tbody) ==
    [id |-> id, class_table |-> class_table, thead |-> thead, tbody |-> tbody]

NoTag == [present |-> FALSE, text |-> << >>]
Tag(toks) == [present |-> TRUE, text |-> toks]
NoSection == [present |-> FALSE, rows |-> << >>]
Script(case_number) == [case_number |-> case_number]

CaseId == "2574263"
CaseDigest == "F7EKw+8ZEQL4oLpbaaU9fA"

StatusTable ==
    Table(None, TRUE, << >>,
          << <<Cell(<<"Case", Blank, "Status", ":">>), Cell(<<Blank, "Open">>)>>,
             <<Cell(<<"Judge", ":">>), Cell(<<"Smith">>)>>,
             <<Cell(<<"Notes", ":">>), Cell(<<Blank>>)>> >>)

ClosedTable ==
    Table(None, TRUE, <<<<"Case", Blank, "Status">>, <<"Closed">>>>, << >>)

NumberTable ==
    Table(None, TRUE, << >>,
          << <<Cell(<<"Case", Blank, "Number", ":">>), Cell(<<"24TR999999">>)>> >>)

BaseDockets ==
    Table(DOCKETS_TABLE_ID, TRUE, <<<<>>, <<"Date">>>>,
          << <<ImgCell(<<"900">>, <<"img_", "900">>), Cell(<<"01/02/2024">>)>> >>)

FragmentDockets ==
    Table(DOCKETS_TABLE_ID, FALSE, <<<<>>, <<"Date">>, <<"Description">>>>,
          << <<ImgCell(<<"501">>, <<"img_", "501">>), Cell(<<"03/04/2024">>),
               Cell(<<"ARRAIGNMENT">>)>>,
             << >>,
             <<ImgCell(<< >>, <<"img_", "502">>), Cell(<<"05/06/2024">>),
               Cell(<<"FTA">>)>> >>)

HeaderlessDockets ==
    Table(DOCKETS_TABLE_ID, FALSE, <<<<"Date">>>>,
          << <<Cell(<<"07/08/2024">>), Cell(<<"NOTICE">>)>> >>)

EmptyDockets == Table(DOCKETS_TABLE_ID, FALSE, << >>, << >>)

TitledPage ==
    [title |-> Tag(<<"99", "TR", "268487", Blank, "-", Blank, "STATE", Blank, "VS",
                     Blank, "DOE">>),
     heading |-> Tag(<<"Case", Blank, "Details">>),
     scripts |-> <<Script(None), Script("24TR000111")>>,
     tables |-> <<StatusTable, BaseDockets>>,
     parties |-> [present |-> TRUE,
                  rows |-> << <<Cell(<<"DOE">>), Cell(<<"DEFENDANT">>)>>, <<Cell(<<"x">>)>> >>],
     charges |-> [present |-> TRUE,
                  rows |-> << <<Cell(<<"40-6-181">>), Cell(<<"SPEEDING">>)>>, << >> >>],
     cid |-> CaseId, digest |-> CaseDigest]

HeadedPage ==
    [title |-> Tag(<<"Case", Blank, "Details">>),
     heading |-> Tag(<<Blank, "24", "TR", "000111">>),
     scripts |-> << >>,
     tables |-> <<StatusTable, ClosedTable, NumberTable>>,
     parties |-> NoSection, charges |-> NoSection,
     cid |-> CaseId, digest |-> CaseDigest]

ScriptedPage ==
    [title |-> NoTag, heading |-> Tag(<< >>),
     scripts |-> <<Script(None), Script("24TR000111"), Script("24TR000222")>>,
     tables |-> <<BaseDockets>>,
     parties |-> NoSection, charges |-> NoSection,
     cid |-> CaseId, digest |-> CaseDigest]

BarePage ==
    [title |-> NoTag, heading |-> NoTag, scripts |-> << >>, tables |-> << >>,
     parties |-> NoSection, charges |-> NoSection,
     cid |-> CaseId, digest |-> CaseDigest]

DetailsPages ==
    {TitledPage, HeadedPage, ScriptedPage, BarePage,
     [TitledPage EXCEPT !.cid = None],
     [ScriptedPage EXCEPT !.digest = None],
     [BarePage EXCEPT !.cid = None, !.digest = None]}

SummaryPages ==
    { [dls |-> << >>, tables |-> << >>],
      [dls |-> << [dts |-> <<<<"Judge", ":">>, <<"Docket", Blank, "History", ":">>,
                             <<"Case", Blank, "Number", ":">>, <<"URL">>,
                             <<"Notes">>, <<"Extra">>>>,
                   dds |-> <<<<"Jones">>, <<"see", Blank, "below">>, <<"24CR000007">>,
                             <<"elsewhere">>, <<NBSP>>>>] >>,
       tables |-> << >>],
      [dls |-> << [dts |-> <<<<"Case", Blank, "Status", ":">>>>,
                   dds |-> <<<<"Disposed">>>>] >>,
       tables |-> <<Table(SUMMARY_PARTIES_ID, FALSE, << >>,
                          << <<Cell(<<"DEFENDANT">>), LinkCell(<<"DOE">>),
                               Cell(<<"PUBLIC", Blank, "DEFENDER">>)>>,
                             <<Cell(<<"OFFICER">>), Cell(<<"ROE">>)>> >>),
                    Table(SUMMARY_CHARGES_ID, FALSE, <<<<"Statute">>, <<"Description">>>>,
                          << <<Cell(<<"40-6-181">>), Cell(<<NBSP>>)>>,
                             <<Cell(<<"40-6-20">>)>> >>)>>] }

DocketsPages ==
    { [tables |-> << >>],
      [tables |-> <<FragmentDockets>>],
      [tables |-> <<HeaderlessDockets>>],
      [tables |-> <<EmptyDockets>>] }

DetailsFinalUrl ==
    <<"/", "BenchmarkWeb", "/", "CourtCase.aspx", "/", "Details", "/", "2574263",
      "?", "digest">>

PageResponses(pages, urls) ==
    {[ConnectionFailure EXCEPT !.html = NoDoc]} \cup
    [connected : {TRUE}, status : {200, 500}, set_cookies : { << >> },
     expired : { {} }, html : pages, url : urls]

\* response.url is the requested URL, or the one a redirect led to
DetailsResponses ==
    PageResponses(DetailsPages, {DetailsUrl}) \cup
    PageResponses({TitledPage, [BarePage EXCEPT !.cid = None, !.digest = None]},
                  {DetailsFinalUrl})
SummaryResponses == PageResponses(SummaryPages, { << >> })
DocketsResponses == PageResponses(DocketsPages, { << >> })

\* ------------------------------------------------- search_and_get_results
OrchCaller == Min(Callers)

\* an unsuccessful search sent on to the results endpoint
AfterSearchNoSuccessTest(res) ==
    IF res.kind = "raised"
    THEN [opc |-> "idle", out |-> OutRaised(res.error)]
    ELSE IF res.response_type = "case_details" /\ res.url # << >>
    THEN [opc |-> "details", out |-> NoOut]
    ELSE [opc |-> "paginate", out |-> NoOut]

\* a redirect to a case treated as a page of results
AfterSearchDetailsToPaginate(res) ==
    IF res.kind = "raised"
    THEN [opc |-> "idle", out |-> OutRaised(res.error)]
    ELSE IF ~res.success
    THEN [opc |-> "idle", out |-> OutReturned(<< >>)]
    ELSE [opc |-> "paginate", out |-> NoOut]

\* an error of the search caught and turned into an empty list
AfterSearchSwallowsError(res) ==
    IF res.kind = "raised" \/ ~res.success
    THEN [opc |-> "idle", out |-> OutReturned(<< >>)]
    ELSE IF res.response_type = "case_details"
    THEN [opc |-> "details", out |-> NoOut]
    ELSE [opc |-> "paginate", out |-> NoOut]

\* search_and_get_results, after self.search returned `res`: where it goes
\* next and, when it is done, what it returns
AfterSearch(res) ==
    IF res.kind = "raised"
    THEN [opc |-> "idle", out |-> OutRaised(res.error)]
    ELSE IF ~res.success
    THEN [opc |-> "idle", out |-> OutReturned(<< >>)]
    ELSE IF res.response_type = "case_details"
    THEN IF res.url # << >>
         THEN [opc |-> "details", out |-> NoOut]
         ELSE [opc |-> "idle", out |-> OutReturned(<< >>)]
    ELSE IF res.response_type = "search_results"
    THEN [opc |-> "paginate", out |-> NoOut]
    ELSE [opc |-> "idle", out |-> OutReturned(<< >>)]

\* search_and_get_results(search_term, search_type, max_results): the call
\* and the first statement of the search() it makes
OrchBegin ==
    /\ opc = "idle"
    /\ ocalls < MaxOrchCalls
    /\ SearchBeginAlone(OrchCaller)
    /\ \E m \in MaxResultsChoices :
          ocall' = [op |-> "search_and_get_results", max_results |-> m, url |-> << >>]
    /\ opc' = "search"
    /\ ocalls' = ocalls + 1
    /\ call_start' = Len(trace)
    /\ out' = NoOut
    /\ docs' = NoDocs
    /\ case_data' = EmptyDict
    /\ UNCHANGED <<fvars, cli, parse>>

\* the bootstrap inside that search(); an error it raises ends the call
OrchGetSearchPage ==
    /\ opc = "search"
    /\ GetSearchPage(OrchCaller)
    /\ IF pc'[OrchCaller] = "idle"
       THEN opc' = "idle" /\ out' = OutRaised(result'.error)
       ELSE UNCHANGED <<opc, out>>
    /\ UNCHANGED <<ocall, case_data, docs, call_start, ocalls, fvars, cli, parse>>

\* the submission inside that search(), and the branch on what it returned
OrchSubmitSearch ==
    /\ opc = "search"
    /\ SubmitSearch(OrchCaller)
    /\ opc' = AfterSearch(result').opc
    /\ out' = AfterSearch(result').out
    /\ ocall' = [ocall EXCEPT !.url = IF opc' = "details" THEN result'.url ELSE << >>]
    /\ UNCHANGED <<case_data, docs, call_start, ocalls, fvars, cli, parse>>

\* the results branch asking for the default page length
OrchPaginateDefaultLength ==
    /\ opc = "paginate"
    /\ \E resp \in ResultsResponses :
          /\ GetResultsData(0, DEFAULT_LENGTH, resp)
          /\ out' = IF ResultsDataOutcome(resp).kind = "raised"
                    THEN ResultsDataOutcome(resp)
                    ELSE OutReturned(Get(ResultsDataOutcome(resp).value, "data", << >>))
    /\ opc' = "idle"
    /\ UNCHANGED <<csrf_token_body, csrf_cookie_name, pc, landing_html, result,
                   classified, first_seen, calls>>
    /\ UNCHANGED <<ocall, case_data, call_start, ocalls, fvars, cli, parse>>

\* the results branch: get_results_data(length=max_results), then its rows
OrchPaginate ==
    /\ opc = "paginate"
    /\ \E resp \in ResultsResponses :
          /\ GetResultsData(0, ocall.max_results, resp)
          /\ out' = IF ResultsDataOutcome(resp).kind = "raised"
                    THEN ResultsDataOutcome(resp)
                    ELSE OutReturned(Get(ResultsDataOutcome(resp).value, "data", << >>))
    /\ opc' = "idle"
    /\ UNCHANGED <<csrf_token_body, csrf_cookie_name, pc, landing_html, result,
                   classified, first_seen, calls>>
    /\ UNCHANGED <<ocall, case_data, call_start, ocalls, fvars, cli, parse>>

\* get_results_data called on its own
CallGetResultsData ==
    /\ opc = "idle"
    /\ \A d \in Callers : pc[d] = "idle"
    /\ ocalls < MaxOrchCalls
    /\ \E start \in StartChoices, length \in MaxResultsChoices,
          resp \in ResultsResponses :
          /\ GetResultsData(start, length, resp)
          /\ out' = ResultsDataOutcome(resp)
          /\ ocall' = [op |-> "get_results_data", max_results |-> length, url |-> << >>]
    /\ ocalls' = ocalls + 1
    /\ call_start' = Len(trace)
    /\ case_data' = EmptyDict
    /\ UNCHANGED <<csrf_token_body, csrf_cookie_name, pc, landing_html, result,
                   classified, first_seen, calls>>
    /\ UNCHANGED <<opc, fvars, cli, parse>>

\* ------------------------------------------- get_case_details_with_dockets
DetailsEvent(url, outcome) ==
    [op |-> "details_get", token |-> None, outcome |-> outcome, url |-> url]
FragmentEvent(op, case_id, digest, outcome) ==
    [op |-> op, token |-> None, outcome |-> outcome,
     case_id |-> case_id, digest |-> digest]

\* what a GET that ran to the end of raise_for_status() came to
GetOutcome(resp) ==
    IF ~resp.connected THEN ERR_CONNECTION
    ELSE IF IsHttpError(resp.status) THEN ERR_HTTP
    ELSE "ok"

\* the value handed to the caller: the record itself, or the one-element
\* list search_and_get_results makes of it
Finish(cd) ==
    OutReturned(IF ocall.op = "search_and_get_results" THEN <<cd>> ELSE cd)

\* get_case_details_with_dockets(case_url) called on its own
CallGetCaseDetails ==
    /\ opc = "idle"
    /\ \A d \in Callers : pc[d] = "idle"
    /\ ocalls < MaxOrchCalls
    /\ ocall' = [op |-> "get_case_details_with_dockets", max_results |-> 0,
                 url |-> DetailsUrl]
    /\ opc' = "details"
    /\ ocalls' = ocalls + 1
    /\ call_start' = Len(trace)
    /\ out' = NoOut
    /\ docs' = NoDocs
    /\ case_data' = EmptyDict
    /\ UNCHANGED <<svars, fvars, cli, parse>>

\* the details page tested for the case id alone
DetailsGetCidOnly ==
    /\ opc = "details"
    /\ \E resp \in DetailsResponses :
        /\ trace' = Append(trace, DetailsEvent(ocall.url, GetOutcome(resp)))
        /\ cookies' = IF resp.connected THEN ExtractCookies(cookies, resp) ELSE cookies
        /\ IF GetOutcome(resp) # "ok"
           THEN /\ out' = OutRaised(GetOutcome(resp))
                /\ opc' = "idle"
                /\ UNCHANGED <<case_data, docs>>
           ELSE LET cd == Put(ParseCaseDetails(resp.html), "url", resp.url)
                IN  /\ docs' = [docs EXCEPT !.details = resp.html,
                                            !.details_url = resp.url]
                    /\ IF resp.html.cid # None
                       THEN /\ case_data' = cd
                            /\ opc' = "summary"
                            /\ UNCHANGED out
                       ELSE /\ case_data' = Put(cd, "docket_history", << >>)
                            /\ opc' = "idle"
                            /\ out' = Finish(case_data')
    /\ UNCHANGED <<csrf_token_body, csrf_cookie_name, pc, landing_html, result,
                   classified, first_seen, calls>>
    /\ UNCHANGED <<ocall, call_start, ocalls, fvars, cli, parse>>

\* the GET of the details page, parse_case_details, the url, and the test
\* for the case id and the digest
DetailsGet ==
    /\ opc = "details"
    /\ \E resp \in DetailsResponses :
        /\ trace' = Append(trace, DetailsEvent(ocall.url, GetOutcome(resp)))
        /\ cookies' = IF resp.connected THEN ExtractCookies(cookies, resp) ELSE cookies
        /\ IF GetOutcome(resp) # "ok"
           THEN /\ out' = OutRaised(GetOutcome(resp))
                /\ opc' = "idle"
                /\ UNCHANGED <<case_data, docs>>
           ELSE LET cd == Put(ParseCaseDetails(resp.html), "url", resp.url)
                IN  /\ docs' = [docs EXCEPT !.details = resp.html,
                                            !.details_url = resp.url]
                    /\ IF resp.html.cid # None /\ resp.html.digest # None
                       THEN /\ case_data' = cd
                            /\ opc' = "summary"
                            /\ UNCHANGED out
                       ELSE /\ case_data' = Put(cd, "docket_history", << >>)
                            /\ opc' = "idle"
                            /\ out' = Finish(case_data')
    /\ UNCHANGED <<csrf_token_body, csrf_cookie_name, pc, landing_html, result,
                   classified, first_seen, calls>>
    /\ UNCHANGED <<ocall, call_start, ocalls, fvars, cli, parse>>

\* a summary that failed is logged and the dockets are fetched all the same
SummaryGetSwallowsError ==
    /\ opc = "summary"
    /\ \E resp \in SummaryResponses :
        /\ trace' = Append(trace, FragmentEvent("summary_get", docs.details.cid,
                                                docs.details.digest, GetOutcome(resp)))
        /\ cookies' = IF resp.connected THEN ExtractCookies(cookies, resp) ELSE cookies
        /\ opc' = "dockets"
        /\ IF GetOutcome(resp) # "ok"
           THEN UNCHANGED <<case_data, docs>>
           ELSE /\ docs' = [docs EXCEPT !.summary = resp.html]
                /\ case_data' = Update(case_data, ParseCaseSummary(resp.html))
        /\ UNCHANGED out
    /\ UNCHANGED <<csrf_token_body, csrf_cookie_name, pc, landing_html, result,
                   classified, first_seen, calls>>
    /\ UNCHANGED <<ocall, call_start, ocalls, fvars, cli, parse>>

\* get_case_summary and the merge of its summary_data
SummaryGet ==
    /\ opc = "summary"
    /\ \E resp \in SummaryResponses :
        /\ trace' = Append(trace, FragmentEvent("summary_get", docs.details.cid,
                                                docs.details.digest, GetOutcome(resp)))
        /\ cookies' = IF resp.connected THEN ExtractCookies(cookies, resp) ELSE cookies
        /\ IF GetOutcome(resp) # "ok"
           THEN /\ out' = OutRaised(GetOutcome(resp))
                /\ opc' = "idle"
                /\ UNCHANGED <<case_data, docs>>
           ELSE /\ docs' = [docs EXCEPT !.summary = resp.html]
                /\ case_data' = Update(case_data, ParseCaseSummary(resp.html))
                /\ opc' = "dockets"
                /\ UNCHANGED out
    /\ UNCHANGED <<csrf_token_body, csrf_cookie_name, pc, landing_html, result,
                   classified, first_seen, calls>>
    /\ UNCHANGED <<ocall, call_start, ocalls, fvars, cli, parse>>

\* the docket_history written without looking at the fragment's `success`
DocketsGetKeepBase ==
    /\ opc = "dockets"
    /\ \E resp \in DocketsResponses :
        /\ trace' = Append(trace, FragmentEvent("dockets_get", docs.details.cid,
                                                docs.details.digest, GetOutcome(resp)))
        /\ cookies' = IF resp.connected THEN ExtractCookies(cookies, resp) ELSE cookies
        /\ opc' = "idle"
        /\ IF GetOutcome(resp) # "ok"
           THEN /\ out' = OutRaised(GetOutcome(resp))
                /\ UNCHANGED <<case_data, docs>>
           ELSE /\ docs' = [docs EXCEPT !.dockets = resp.html]
                /\ case_data' = IF ParseCaseDockets(resp.html).success
                                THEN Put(case_data, "docket_history",
                                         ParseCaseDockets(resp.html).docket_history)
                                ELSE Put(case_data, "docket_history",
                                         Get(ParseCaseDetails(docs.details),
                                             "docket_history", << >>))
                /\ out' = Finish(case_data')
    /\ UNCHANGED <<csrf_token_body, csrf_cookie_name, pc, landing_html, result,
                   classified, first_seen, calls>>
    /\ UNCHANGED <<ocall, call_start, ocalls, fvars, cli, parse>>

\* get_case_dockets and the docket_history it gives the record
DocketsGet ==
    /\ opc = "dockets"
    /\ \E resp \in DocketsResponses :
        /\ trace' = Append(trace, FragmentEvent("dockets_get", docs.details.cid,
                                                docs.details.digest, GetOutcome(resp)))
        /\ cookies' = IF resp.connected THEN ExtractCookies(cookies, resp) ELSE cookies
        /\ opc' = "idle"
        /\ IF GetOutcome(resp) # "ok"
           THEN /\ out' = OutRaised(GetOutcome(resp))
                /\ UNCHANGED <<case_data, docs>>
           ELSE /\ docs' = [docs EXCEPT !.dockets = resp.html]
                /\ case_data' = IF ParseCaseDockets(resp.html).success
                                THEN Put(case_data, "docket_history",
                                         ParseCaseDockets(resp.html).docket_history)
                                ELSE Put(case_data, "docket_history", << >>)
                /\ out' = Finish(case_data')
    /\ UNCHANGED <<csrf_token_body, csrf_cookie_name, pc, landing_html, result,
                   classified, first_seen, calls>>
    /\ UNCHANGED <<ocall, call_start, ocalls, fvars, cli, parse>>

NextOrch ==
    \/ OrchBegin
    \/ OrchGetSearchPage
    \/ OrchSubmitSearch
    \/ OrchPaginate
    \/ CallGetResultsData
    \/ CallGetCaseDetails
    \/ DetailsGet
    \/ SummaryGet
    \/ DocketsGet

SpecOrch == Init /\ [][NextOrch]_vars

\* ------------------------------------------------- search(): the form data
DEFAULT_COURT_TYPES == <<"22", "2", "20", "21", "7", "10">>
DEFAULT_PARTY_TYPES == <<"1", "2", "3", "4", "5">>
DEFAULT_DIVISIONS == <<"1">>

SEARCH_TYPE_NAME == "Name"
SEARCH_TYPE_CASE_NUMBER == "CaseNumber"

DATE_KEYS == {"openedFrom", "openedTo", "closedFrom", "closedTo"}
LIST_KEYS == {"courtTypes", "partyTypes", "divisions"}
RESERVED_KEYS ==
    {"caseTypes", "statutes", "partyBirthYear", "partyDOB", "caseStatus",
     "propertyAddress", "propertyCity", "propertyZip", "propertySubDivision",
     "lawFirm", "unpaidPrincipleBalanceFrom", "unpaidPrincipleBalanceTo",
     "electionDemandFrom", "electionDemandTo", "attorneyFileNumber"}
GENERATED_KEYS ==
    {CSRF_FIELD, "type", "search"} \cup DATE_KEYS \cup LIST_KEYS \cup RESERVED_KEYS

\* an Optional[List[str]] argument
Unset == [set |-> FALSE, ids |-> << >>]
Ids(ids) == [set |-> TRUE, ids |-> ids]

\* `x or ''`
OrEmpty(x) == IF Falsy(x) THEN "" ELSE x

\* `if x is None: x = default`
OrDefault(x, default) == IF x.set THEN x.ids ELSE default

\* the form without the defaults: an unset list joined as it is
FormDataNoDefaults(token, args) ==
    Update([k \in GENERATED_KEYS |->
               IF k = CSRF_FIELD THEN token
               ELSE IF k = "type" THEN args.search_type
               ELSE IF k = "search" THEN args.search_term
               ELSE IF k = "openedFrom" THEN OrEmpty(args.opened_from)
               ELSE IF k = "openedTo" THEN OrEmpty(args.opened_to)
               ELSE IF k = "closedFrom" THEN OrEmpty(args.closed_from)
               ELSE IF k = "closedTo" THEN OrEmpty(args.closed_to)
               ELSE IF k = "courtTypes" THEN JoinWith(args.court_types.ids, ",")
               ELSE IF k = "partyTypes" THEN JoinWith(args.party_types.ids, ",")
               ELSE IF k = "divisions" THEN JoinWith(args.divisions.ids, ",")
               ELSE ""],
           args.kwargs)

\* the form with the unset date filters left out
FormDataOmitsUnset(token, args) ==
    LET unset == {k \in DATE_KEYS :
                    \/ k = "openedFrom" /\ Falsy(args.opened_from)
                    \/ k = "openedTo" /\ Falsy(args.opened_to)
                    \/ k = "closedFrom" /\ Falsy(args.closed_from)
                    \/ k = "closedTo" /\ Falsy(args.closed_to)}
        full == FormDataNoDefaults(token,
                    [args EXCEPT !.court_types = Ids(OrDefault(@, DEFAULT_COURT_TYPES)),
                                 !.party_types = Ids(OrDefault(@, DEFAULT_PARTY_TYPES)),
                                 !.divisions = Ids(OrDefault(@, DEFAULT_DIVISIONS)),
                                 !.kwargs = EmptyDict])
    IN  Update([k \in DOMAIN full \ unset |-> full[k]], args.kwargs)

\* the extension fields laid down first and the generated keys over them
FormDataKwargsFirst(token, args) ==
    Update(args.kwargs,
           FormDataNoDefaults(token,
               [args EXCEPT !.court_types = Ids(OrDefault(@, DEFAULT_COURT_TYPES)),
                            !.party_types = Ids(OrDefault(@, DEFAULT_PARTY_TYPES)),
                            !.divisions = Ids(OrDefault(@, DEFAULT_DIVISIONS)),
                            !.kwargs = EmptyDict]))

\* form_data as search() builds it, the extension fields merged in last
FormData(token, args) ==
    LET court_types == OrDefault(args.court_types, DEFAULT_COURT_TYPES)
        party_types == OrDefault(args.party_types, DEFAULT_PARTY_TYPES)
        divisions == OrDefault(args.divisions, DEFAULT_DIVISIONS)
        form_data0 ==
            [k \in GENERATED_KEYS |->
               IF k = CSRF_FIELD THEN token
               ELSE IF k = "type" THEN args.search_type
               ELSE IF k = "search" THEN args.search_term
               ELSE IF k = "openedFrom" THEN OrEmpty(args.opened_from)
               ELSE IF k = "openedTo" THEN OrEmpty(args.opened_to)
               ELSE IF k = "closedFrom" THEN OrEmpty(args.closed_from)
               ELSE IF k = "closedTo" THEN OrEmpty(args.closed_to)
               ELSE IF k = "courtTypes" THEN JoinWith(court_types, ",")
               ELSE IF k = "partyTypes" THEN JoinWith(party_types, ",")
               ELSE IF k = "divisions" THEN JoinWith(divisions, ",")
               ELSE ""]
    IN  Update(form_data0, args.kwargs)

\* the arguments search() is called with
FormArgs ==
    [search_term : {"DOE"},
     search_type : {SEARCH_TYPE_NAME, SEARCH_TYPE_CASE_NUMBER},
     court_types : {Unset, Ids(<< >>), Ids(<<"5">>), Ids(<<"22", "2">>)},
     party_types : {Unset, Ids(<<"1", "3">>)},
     divisions : {Unset, Ids(<<"2">>)},
     opened_from : {None, "", "01/01/2024"},
     opened_to : {None, "12/31/2024"},
     closed_from : {None, "02/01/2024"},
     closed_to : {None, "11/30/2024"},
     kwargs : {EmptyDict,
               [courtTypes |-> "5"],
               [caseStatus |-> "Open", openedFrom |-> "03/01/2024"],
               [page |-> "2"],
               [divisions |-> "9", sortBy |-> "date"]}]

\* a client whose bootstrap has succeeded, about to build a form
InitForm ==
    /\ csrf_token_body \in {"tok1", "tok2"}
    /\ csrf_cookie_name = RvtX9
    /\ cookies = <<SessionCookie, RvtX9>>
    /\ pc = [c \in Callers |-> "idle"]
    /\ landing_html = <<InputEl(CSRF_FIELD, csrf_token_body)>>
    /\ result = NoResult
    /\ trace = <<GetEvent("ok")>>
    /\ classified = [html |-> << >>, url |-> << >>]
    /\ first_seen = << >>
    /\ calls = 1
    /\ opc = "idle"
    /\ ocall = NoCall
    /\ case_data = EmptyDict
    /\ docs = NoDocs
    /\ out = NoOut
    /\ call_start = 0
    /\ ocalls = 0
    /\ form_args \in FormArgs
    /\ form_data = EmptyDict
    /\ cli = NoCli
    /\ parse = NoParse

\* search(), from the defaults to form_data.update(kwargs)
BuildForm ==
    /\ form_data = EmptyDict
    /\ form_data' = FormData(csrf_token_body, form_args)
    /\ UNCHANGED <<svars, ovars, form_args, cli, parse>>

NextForm == BuildForm

SpecForm == InitForm /\ [][NextForm]_vars

\* ------------------------------------- parse_case_details called on a soup
\* a docket table whose rows, were it not skipped, would read as label/value
LabelledDockets ==
    Table(DOCKETS_TABLE_ID, TRUE, <<<<"Judge">>, <<"Description">>>>,
          << <<Cell(<<"01/02/2024">>), Cell(<<"FILED">>)>> >>)

\* a docket table with a row shorter than the header row, and one whose first
\* cell has no image
ShortRowDockets ==
    Table(DOCKETS_TABLE_ID, TRUE, <<<<>>, <<"Date">>, <<"Description">>>>,
          << <<ImgCell(<< >>, <<"img_", "700">>), Cell(<<"09/10/2024">>)>>,
             <<Cell(<< >>), Cell(<<"11/12/2024">>), Cell(<<Blank, "BOND", Blank>>)>> >>)

NoBodyDockets == Table(DOCKETS_TABLE_ID, TRUE, <<<<>>, <<"Date">>>>, << >>)

SoupTitles ==
    {NoTag, Tag(<<"Case", Blank, "Details">>),
     Tag(<<"99", "TR", "268487", Blank, "-", Blank, "STATE", Blank, "VS", Blank, "DOE">>)}
SoupHeadings == {NoTag, Tag(<< >>), Tag(<<Blank, "24", "TR", "000111">>)}
SoupScripts == { << >>, <<Script(None), Script("24TR000111"), Script("24TR000222")>> }
SoupTables ==
    { << >>, <<StatusTable, ClosedTable>>, <<StatusTable, BaseDockets>>,
      <<NumberTable>>, <<NoBodyDockets, StatusTable>>, <<StatusTable, LabelledDockets, ClosedTable>>,
      <<ShortRowDockets>>, <<HeaderlessDockets>> }

Soups ==
    [title : SoupTitles, heading : SoupHeadings, scripts : SoupScripts,
     tables : SoupTables, parties : {NoSection}, charges : {NoSection},
     cid : {CaseId}, digest : {CaseDigest}]

\* a caller holding the soup of a case-details page
InitParse ==
    /\ csrf_token_body = None
    /\ csrf_cookie_name = NoCookieName
    /\ cookies = << >>
    /\ pc = [c \in Callers |-> "idle"]
    /\ landing_html = << >>
    /\ result = NoResult
    /\ trace = << >>
    /\ classified = [html |-> << >>, url |-> << >>]
    /\ first_seen = << >>
    /\ calls = 0
    /\ opc = "idle"
    /\ ocall = NoCall
    /\ case_data = EmptyDict
    /\ docs = NoDocs
    /\ out = NoOut
    /\ call_start = 0
    /\ ocalls = 0
    /\ form_args = NoFormArgs
    /\ form_data = EmptyDict
    /\ cli = NoCli
    /\ \E soup \in Soups : parse = [pc |-> "soup", soup |-> soup]

\* parse_case_details(soup): the record it returns
CallParseCaseDetails ==
    /\ parse.pc = "soup"
    /\ parse' = [pc |-> "parsed", soup |-> parse.soup,
                 case_data |-> ParseCaseDetails(parse.soup)]
    /\ UNCHANGED <<svars, ovars, fvars, cli>>

NextParse == CallParseCaseDetails

SpecParse == InitParse /\ [][NextParse]_vars

\* ------------------------------------------------- cli.py: search_command
EXIT_OK == 0
EXIT_ERROR == 1

SEARCH_TYPE_ATTORNEY == "Attorney"
ERR_OS == "OSError"

\* str.split(sep) on a token sequence: the pieces between the separators
RECURSIVE SplitOn(_, _)
SplitOn(toks, sep) ==
    LET seps == {i \in 1..Len(toks) : toks[i] = sep}
    IN  IF seps = {} THEN <<Concat(toks)>>
        ELSE <<Concat(SubSeq(toks, 1, Min(seps) - 1))>> \o
             SplitOn(SubSeq(toks, Min(seps) + 1, Len(toks)), sep)

\* the argparse namespace: an option not given is None (a list option, as
\* the empty token sequence, which is as falsy as None)
NoCliArgs ==
    [name |-> None, case_number |-> None, attorney |-> None,
     court_types |-> << >>, party_types |-> << >>, divisions |-> << >>,
     opened_from |-> None, opened_to |-> None, closed_from |-> None,
     closed_to |-> None, max_results |-> DEFAULT_MAX_RESULTS, output |-> None]

CliArgs ==
    { [NoCliArgs EXCEPT !.name = "Doe, John"],
      [NoCliArgs EXCEPT !.name = "Doe, John", !.output = "out/results.json",
                        !.party_types = <<"1">>, !.closed_to = "2024-12-31"],
      [NoCliArgs EXCEPT !.case_number = "24TR000111", !.max_results = 5,
                        !.court_types = <<"22", ",", "2">>,
                        !.output = "results.json"],
      [NoCliArgs EXCEPT !.attorney = "Roe", !.max_results = 5,
                        !.divisions = <<"1", ",", "2">>,
                        !.opened_from = "2024-01-01"] }

\* the search type chosen from the three exclusive options
CliSearchType(args) ==
    IF ~Falsy(args.case_number) THEN SEARCH_TYPE_CASE_NUMBER
    ELSE IF ~Falsy(args.attorney) THEN SEARCH_TYPE_ATTORNEY
    ELSE SEARCH_TYPE_NAME

\* args.name or args.case_number or args.attorney
CliSearchTerm(args) ==
    IF ~Falsy(args.name) THEN args.name
    ELSE IF ~Falsy(args.case_number) THEN args.case_number
    ELSE args.attorney

\* search_kwargs: only the options that were given
CliSearchKwargs(args) ==
    LET lists == {k \in {"court_types", "party_types", "divisions"} : args[k] # << >>}
        dates == {k \in {"opened_from", "opened_to", "closed_from", "closed_to"} :
                    ~Falsy(args[k])}
    IN  [k \in lists \cup dates |->
            IF k \in lists THEN SplitOn(args[k], ",") ELSE <<args[k]>>]

\* search_command(args) up to the try block's call: the client is made and
\* the search type, term and keyword arguments are worked out
CliBegin ==
    /\ cli = NoCli
    /\ \E args \in CliArgs :
          cli' = [pc |-> "search", args |-> args,
                  search_type |-> CliSearchType(args),
                  search_term |-> CliSearchTerm(args),
                  search_kwargs |-> CliSearchKwargs(args),
                  written |-> "no", ret |-> -1, closed |-> FALSE]
    /\ UNCHANGED <<svars, ovars, fvars, parse>>

\* client.search_and_get_results(..., max_results=args.max_results, ...)
CliSearch ==
    /\ cli.pc = "search"
    /\ ocall = NoCall
    /\ OrchBegin
    /\ ocall'.max_results = cli.args.max_results

\* the steps of that call
CliStep(A) == cli.pc = "search" /\ A

\* the call returned: the results go to the file or to stdout, and writing
\* the file can fail
CliOutput ==
    /\ cli.pc = "search"
    /\ opc = "idle"
    /\ out.kind = "returned"
    /\ \E written \in IF Falsy(cli.args.output) THEN {"stdout"} ELSE {"file", ERR_OS} :
          cli' = [cli EXCEPT !.pc = "finally", !.written = written,
                             !.ret = IF written = ERR_OS THEN EXIT_ERROR ELSE EXIT_OK]
    /\ UNCHANGED <<svars, ovars, fvars, parse>>

\* the call raised: `except Exception`
CliExcept ==
    /\ cli.pc = "search"
    /\ opc = "idle"
    /\ out.kind = "raised"
    /\ cli' = [cli EXCEPT !.pc = "finally", !.ret = EXIT_ERROR]
    /\ UNCHANGED <<svars, ovars, fvars, parse>>

\* the client closed only when the command succeeded
CliFinallyOnSuccessOnly ==
    /\ cli.pc = "finally"
    /\ cli' = [cli EXCEPT !.pc = "returned", !.closed = (cli.ret = EXIT_OK)]
    /\ UNCHANGED <<svars, ovars, fvars, parse>>

\* `finally: client.close()`, then the return
CliFinally ==
    /\ cli.pc = "finally"
    /\ cli' = [cli EXCEPT !.pc = "returned", !.closed = TRUE]
    /\ UNCHANGED <<svars, ovars, fvars, parse>>

NextCli ==
    \/ CliBegin
    \/ CliSearch
    \/ CliStep(OrchGetSearchPage)
    \/ CliStep(OrchSubmitSearch)
    \/ CliStep(OrchPaginate)
    \/ CliStep(DetailsGet)
    \/ CliStep(SummaryGet)
    \/ CliStep(DocketsGet)
    \/ CliOutput
    \/ CliExcept
    \/ CliFinally

SpecCli == Init /\ [][NextCli]_vars

\* ------------------------------------------------------------------ claims
GetIdx == {i \in 1..Len(trace) : trace[i].op = "landing_get"}
PostIdx == {i \in 1..Len(trace) : trace[i].op = "search_post"}

\* the last request sent was a landing-page GET whose page was received
\* (no transport failure, no error status): the state _get_search_page leaves
PageJustReceived ==
    /\ trace # << >>
    /\ Last(trace).op = "landing_get"
    /\ Last(trace).outcome \notin {ERR_CONNECTION, ERR_HTTP}

JarHasCsrfCookie == \E i \in 1..Len(cookies) : StartsWith(cookies[i], CSRF_COOKIE_PREFIX)

\* the page has no input named __RequestVerificationToken, or that input's
\* value is absent or empty
TokenFieldMissing(html) ==
    LET named == {i \in 1..Len(html) : html[i].tag = "input" /\ html[i].name = CSRF_FIELD}
    IN  named = {} \/ html[Min(named)].value \in {None, ""}

HasElementWithId(html, id) == \E i \in 1..Len(html) : html[i].id = id
HasTableWithId(html, id) == \E i \in 1..Len(html) : html[i].tag = "table" /\ html[i].id = id

\* C1: when the first bootstrap on a client succeeds, there is exactly one
\* landing-page GET, it precedes every search POST, every POST carries the
\* token it cached, and no caller is ever again on its way to a GET.
C1_BootstrapOnce ==
    (GetIdx # {} /\ trace[Min(GetIdx)].outcome = "ok") =>
        /\ Cardinality(GetIdx) = 1
        /\ ~Falsy(csrf_token_body)
        /\ \A j \in PostIdx : j > Min(GetIdx) /\ trace[j].token = csrf_token_body
        /\ \A c \in Callers : pc[c] # "get_search_page"

\* the first search bootstrapped, and a later search has been submitted too
C1_Witness ==
    /\ GetIdx # {} /\ trace[Min(GetIdx)].outcome = "ok"
    /\ Cardinality(PostIdx) >= 2
    /\ \A c \in Callers : pc[c] = "idle"

\* C2: with the client shared between concurrent callers, no landing-page
\* GET is sent once one has succeeded: the callers that found the token
\* unset wait for the bootstrap under way instead of sending their own GET.
C2_SingleBootstrap ==
    \A i, j \in GetIdx : i < j => trace[i].outcome # "ok"

\* C3: after a search POST that ended in an HTTP error, a landing-page GET
\* is sent before the next search POST.
C3_FreshBootstrapAfterRejection ==
    \A i, j \in PostIdx :
        (i < j /\ trace[i].outcome = ERR_HTTP) =>
            \E g \in GetIdx : i < g /\ g < j

\* C4: a bootstrap that received its page while the jar holds no cookie with
\* the prefix fails with the missing-cookie error, and the search that ran
\* it goes on to no POST.
C4_NoCookieFails ==
    (PageJustReceived /\ ~JarHasCsrfCookie) =>
        /\ Last(trace).outcome = ERR_NO_COOKIE
        /\ result = Raised(ERR_NO_COOKIE)
        /\ \A c \in Callers : pc[c] # "post"

\* C5 as stated: a bootstrap whose page lacks the token field or its value
\* fails with the missing-token error, and the token stays unset.
C5_NoTokenFails_Original ==
    (PageJustReceived /\ TokenFieldMissing(landing_html)) =>
        /\ result = Raised(ERR_NO_TOKEN)
        /\ Falsy(csrf_token_body)

\* C5 amended: such a bootstrap fails and leaves the token unset; the error
\* is the missing-token error when the cookie test passed (a cookie name is
\* held), and the missing-cookie error, raised first, when it did not.
C5_NoTokenFails ==
    (PageJustReceived /\ TokenFieldMissing(landing_html)) =>
        /\ Falsy(csrf_token_body)
        /\ \A c \in Callers : pc[c] # "post"
        /\ result = IF csrf_cookie_name # NoCookieName
                    THEN Raised(ERR_NO_TOKEN) ELSE Raised(ERR_NO_COOKIE)

\* a page whose token input has an empty value, received with the cookie set
C5_Witness ==
    /\ PageJustReceived
    /\ JarHasCsrfCookie
    /\ landing_html = <<InputEl(CSRF_FIELD, "")>>
    /\ result = Raised(ERR_NO_TOKEN)

\* C6: after a successful bootstrap the cookie name held is a name in the
\* jar that starts with the prefix, and the token held is the value of the
\* page's __RequestVerificationToken input.
C6_BootstrapValues ==
    (trace # << >> /\ Last(trace) = GetEvent("ok")) =>
        /\ csrf_cookie_name \in Range(cookies)
        /\ StartsWith(csrf_cookie_name, CSRF_COOKIE_PREFIX)
        /\ \E i \in 1..Len(landing_html) :
               /\ landing_html[i].tag = "input"
               /\ landing_html[i].name = CSRF_FIELD
               /\ landing_html[i].value = csrf_token_body

\* C7 as stated: a response with any element of id gridSearchResults is
\* classified as a results table.
C7_ResultsTable_Original ==
    (result.kind = "returned" /\ HasElementWithId(classified.html, RESULTS_TABLE_ID)) =>
        result.response_type = "search_results"

\* C7 amended: a response with a table element of id gridSearchResults is
\* classified as a results table whatever its final URL.
C7_ResultsTable ==
    (result.kind = "returned" /\ HasTableWithId(classified.html, RESULTS_TABLE_ID)) =>
        /\ result.response_type = "search_results"
        /\ result.success
        /\ result.html = classified.html
        /\ result.url = classified.url

\* the table came with a final URL on the case-details route
C7_Witness ==
    /\ result.kind = "returned"
    /\ HasTableWithId(classified.html, RESULTS_TABLE_ID)
    /\ Contains(classified.url, DETAILS_ROUTE)
    /\ result.response_type = "search_results"

\* C8: a response with no results table whose final URL contains
\* /CourtCase.aspx/Details/ is classified as case details and carries
\* that URL.
C8_CaseDetails ==
    (/\ result.kind = "returned"
     /\ ~HasTableWithId(classified.html, RESULTS_TABLE_ID)
     /\ Contains(classified.url, DETAILS_ROUTE)) =>
        /\ result.response_type = "case_details"
        /\ result.success
        /\ result.url = classified.url

C8_Witness ==
    /\ result.kind = "returned"
    /\ ~HasElementWithId(classified.html, RESULTS_TABLE_ID)
    /\ classified.url = DetailsUrl
    /\ result.response_type = "case_details"
    /\ result.url = DetailsUrl

\* C9: a 2xx response with neither the results table nor a case-details
\* final URL gives success False, the fixed message and the response html.
C9_NoResults ==
    (/\ result.kind = "returned"
     /\ ~HasTableWithId(classified.html, RESULTS_TABLE_ID)
     /\ ~Contains(classified.url, DETAILS_ROUTE)) =>
        /\ ~result.success
        /\ result.response_type = "unknown"
        /\ result.message = NO_RESULTS_MESSAGE
        /\ result.html = classified.html

\* the final URL stops short of the route's closing slash
C9_Witness ==
    /\ result.kind = "returned"
    /\ ~HasElementWithId(classified.html, RESULTS_TABLE_ID)
    /\ classified.url = DetailsNoSlashUrl
    /\ ~result.success
    /\ result.message = NO_RESULTS_MESSAGE

\* C10: every classified response gets one of the three outcomes, and the
\* same (body, final URL) pair gets the outcome it got the first time,
\* whatever the session holds and whatever was searched in between.
C10_Deterministic ==
    result.kind = "returned" =>
        /\ result.response_type \in {"search_results", "case_details", "unknown"}
        /\ (first_seen # << >> /\ first_seen[1] = classified.html
                               /\ first_seen[2] = classified.url)
              => result.response_type = first_seen[3]

\* the pair classified first comes back after a different response and a
\* rejected submission
C10_Witness ==
    /\ result.kind = "returned"
    /\ first_seen # << >>
    /\ first_seen[1] = classified.html /\ first_seen[2] = classified.url
    /\ Cardinality(PostIdx) >= 3
    /\ trace[Min(PostIdx)].outcome = "ok"
    /\ \E j \in PostIdx : trace[j].outcome = ERR_HTTP

CountOp(op) == Cardinality({i \in (call_start + 1)..Len(trace) : trace[i].op = op})

OrchDone == ocall.op = "search_and_get_results" /\ opc = "idle"

\* the record a finished details call handed back
ReturnedRecord ==
    IF ocall.op = "search_and_get_results" THEN out.value[1] ELSE out.value

\* C12: when the search outcome is NoResults, search_and_get_results returns
\* an empty list and the submission POST is the last request of the call:
\* no pagination POST, no details GET and no fragment GET follows it.
C12_NoResultsEmptyList ==
    (OrchDone /\ result.kind = "returned" /\ ~result.success) =>
        /\ out = OutReturned(<< >>)
        /\ Last(trace).op = "search_post"
        /\ CountOp("results_post") = 0
        /\ CountOp("details_get") = 0
        /\ CountOp("summary_get") = 0
        /\ CountOp("dockets_get") = 0

\* a submission answered with a page that has neither the table nor the route
C12_Witness ==
    /\ OrchDone
    /\ result.kind = "returned"
    /\ result.response_type = "unknown"
    /\ out = OutReturned(<< >>)

\* C13: when the search outcome is ResultsTable, the call makes exactly one
\* pagination POST, directly after the submission POST, with start 0 and
\* length max_results, makes no details or fragment request, and what it
\* returns is the `data` list of that response, same rows in the same order.
C13_ResultsTableOnePage ==
    (OrchDone /\ result.kind = "returned" /\ result.response_type = "search_results") =>
        /\ CountOp("results_post") = 1
        /\ Last(trace).op = "results_post"
        /\ trace[Len(trace) - 1].op = "search_post"
        /\ Last(trace).start = "0"
        /\ Last(trace).length = ToString(ocall.max_results)
        /\ CountOp("details_get") = 0
        /\ CountOp("summary_get") = 0
        /\ CountOp("dockets_get") = 0
        /\ (out.kind = "returned" /\ "data" \in DOMAIN docs.json.body) =>
               out.value = docs.json.body["data"]

\* two rows come back in the order the server sent them, five were asked for
C13_Witness ==
    /\ OrchDone
    /\ result.response_type = "search_results"
    /\ ocall.max_results # DEFAULT_LENGTH
    /\ out.kind = "returned"
    /\ out.value = <<"row_2", "row_1">>

\* the record get_case_details_with_dockets builds from the pages it fetched
CaseRecord(d) ==
    LET base == Put(ParseCaseDetails(d.details), "url", d.details_url)
    IN  IF d.details.cid = None \/ d.details.digest = None
        THEN Put(base, "docket_history", << >>)
        ELSE Put(Update(base, ParseCaseSummary(d.summary)), "docket_history",
                 ParseCaseDockets(d.dockets).docket_history)

\* C14: when the search outcome is CaseDetailsRedirect, the call fetches the
\* redirect target next, never posts to the pagination endpoint, and what it
\* returns is a list of one element: the record built from the details page
\* and the fragments.
C14_CaseDetailsOneRecord ==
    (OrchDone /\ result.kind = "returned" /\ result.response_type = "case_details") =>
        /\ CountOp("results_post") = 0
        /\ CountOp("details_get") = 1
        /\ trace[call_start + CountOp("landing_get") + 2] =
               DetailsEvent(result.url, trace[call_start + CountOp("landing_get") + 2].outcome)
        /\ out.kind = "returned" =>
               /\ Len(out.value) = 1
               /\ out.value[1] = CaseRecord(docs)

\* a redirect whose details page and both fragments were fetched
C14_Witness ==
    /\ OrchDone
    /\ result.response_type = "case_details"
    /\ out.kind = "returned"
    /\ Len(out.value) = 1
    /\ CountOp("dockets_get") = 1

\* C15: one call to search_and_get_results makes at most one landing-page GET
\* and at most one submission POST, and when the submission fails the call
\* ends there, raising that same error.
C15_NoRetry ==
    ocall.op = "search_and_get_results" =>
        /\ CountOp("landing_get") <= 1
        /\ CountOp("search_post") <= 1
        /\ (/\ CountOp("search_post") = 1
            /\ trace[call_start + CountOp("landing_get") + 1].outcome
                   \in {ERR_HTTP, ERR_CONNECTION}) =>
               /\ opc = "idle"
               /\ Len(trace) = call_start + CountOp("landing_get") + 1
               /\ out = OutRaised(Last(trace).outcome)

\* a call whose submission was refused after its one bootstrap
C15_Witness ==
    /\ OrchDone
    /\ CountOp("landing_get") = 1
    /\ CountOp("search_post") = 1
    /\ Last(trace) = PostEvent("tok1", ERR_HTTP)
    /\ out = OutRaised(ERR_HTTP)

\* C16: when the pagination endpoint answers 2xx with a body that is not
\* JSON, get_results_data raises the decode error after that one POST and
\* gives its caller no value.
C16_InvalidJsonRaises ==
    (/\ opc = "idle"
     /\ trace # << >>
     /\ Last(trace).op = "results_post"
     /\ docs.status >= 200 /\ docs.status < 300
     /\ ~docs.json.valid) =>
        /\ out = OutRaised(ERR_JSON)
        /\ CountOp("results_post") = 1

\* get_results_data called on its own and answered 200 with a non-JSON body
C16_Witness ==
    /\ ocall.op = "get_results_data"
    /\ docs.status = 200
    /\ docs.json = InvalidJson
    /\ out = OutRaised(ERR_JSON)

\* C17: when the details page lacks the case id or the digest,
\* get_case_details_with_dockets makes no summary GET and no dockets GET,
\* raises nothing, and returns the extractor's record (with the url) with
\* docket_history an empty list.
C17_MissingIdsSkipFragments ==
    (/\ docs.details # NoDoc
     /\ docs.details.cid = None \/ docs.details.digest = None) =>
        /\ opc = "idle"
        /\ CountOp("summary_get") = 0
        /\ CountOp("dockets_get") = 0
        /\ out.kind = "returned"
        /\ ReturnedRecord =
               Put(Put(ParseCaseDetails(docs.details), "url", docs.details_url),
                   "docket_history", << >>)

\* a page with a docket table of its own and a case id but no digest
C17_Witness ==
    /\ ocall.op = "get_case_details_with_dockets"
    /\ docs.details # NoDoc
    /\ docs.details.cid # None
    /\ docs.details.digest = None
    /\ "docket_history" \in DOMAIN ParseCaseDetails(docs.details)
    /\ out.kind = "returned"
    /\ out.value["docket_history"] = << >>

\* C18: when both fragments were fetched, the docket_history of the returned
\* record is what the docket grammar gives on the dockets fragment, the empty
\* list when the fragment has no docket table, whatever the details page had.
C18_FragmentDocketsSupersede ==
    (opc = "idle" /\ out.kind = "returned" /\ docs.dockets # NoDoc) =>
        /\ "docket_history" \in DOMAIN ReturnedRecord
        /\ ReturnedRecord["docket_history"] =
               (IF FindPageTable(docs.dockets.tables, DOCKETS_TABLE_ID) = NoTable
                THEN << >>
                ELSE ParseDocketTable(FindPageTable(docs.dockets.tables, DOCKETS_TABLE_ID)))

\* a details page with docket entries of its own, a fragment without a table
C18_Witness ==
    /\ opc = "idle"
    /\ out.kind = "returned"
    /\ docs.dockets = [tables |-> << >>]
    /\ "docket_history" \in DOMAIN ParseCaseDetails(docs.details)
    /\ ReturnedRecord["docket_history"] = << >>

\* ------------------------------------------------------- the form data
FormBuilt == form_data # EmptyDict

\* C19 as stated: an unset identifier list is always sent as its default, a
\* set one always as the comma-join of its identifiers.
C19_ListDefaults_Original ==
    FormBuilt =>
        /\ form_data["courtTypes"] =
               (IF form_args.court_types.set THEN JoinWith(form_args.court_types.ids, ",")
                ELSE "22,2,20,21,7,10")
        /\ form_data["partyTypes"] =
               (IF form_args.party_types.set THEN JoinWith(form_args.party_types.ids, ",")
                ELSE "1,2,3,4,5")
        /\ form_data["divisions"] =
               (IF form_args.divisions.set THEN JoinWith(form_args.divisions.ids, ",")
                ELSE "1")

\* C19: for each of courtTypes, partyTypes and divisions that no extension
\* field names, the form carries the default ('22,2,20,21,7,10', '1,2,3,4,5',
\* '1') when the argument is unset and the comma-join of the identifiers when
\* it is set; a key an extension field names carries the extension's value.
C19_ListDefaults ==
    FormBuilt =>
        /\ form_data["courtTypes"] =
               (IF "courtTypes" \in DOMAIN form_args.kwargs
                THEN form_args.kwargs["courtTypes"]
                ELSE IF form_args.court_types.set
                THEN JoinWith(form_args.court_types.ids, ",")
                ELSE "22,2,20,21,7,10")
        /\ form_data["partyTypes"] =
               (IF "partyTypes" \in DOMAIN form_args.kwargs
                THEN form_args.kwargs["partyTypes"]
                ELSE IF form_args.party_types.set
                THEN JoinWith(form_args.party_types.ids, ",")
                ELSE "1,2,3,4,5")
        /\ form_data["divisions"] =
               (IF "divisions" \in DOMAIN form_args.kwargs
                THEN form_args.kwargs["divisions"]
                ELSE IF form_args.divisions.set
                THEN JoinWith(form_args.divisions.ids, ",")
                ELSE "1")

\* court types unset, party types set: the default beside a joined list
C19_Witness ==
    /\ FormBuilt
    /\ ~form_args.court_types.set
    /\ form_args.party_types = Ids(<<"1", "3">>)
    /\ form_args.kwargs = EmptyDict
    /\ form_data["courtTypes"] = "22,2,20,21,7,10"
    /\ form_data["partyTypes"] = "1,3"

\* the value a date filter was called with
DateArg(k) ==
    IF k = "openedFrom" THEN form_args.opened_from
    ELSE IF k = "openedTo" THEN form_args.opened_to
    ELSE IF k = "closedFrom" THEN form_args.closed_from
    ELSE form_args.closed_to

\* C20 as stated: the body has exactly the fixed keys, and every unset date
\* filter and every reserved key is the empty string.
C20_FixedKeySet_Original ==
    FormBuilt =>
        /\ DOMAIN form_data = GENERATED_KEYS
        /\ \A k \in DATE_KEYS : DateArg(k) = None => form_data[k] = ""
        /\ \A k \in RESERVED_KEYS : form_data[k] = ""

\* C20: the body has every generated key, and no key besides those and the
\* extension fields' own; each unset date filter and each reserved key that
\* no extension field names is the empty string.
C20_FixedKeySet ==
    FormBuilt =>
        /\ DOMAIN form_data = GENERATED_KEYS \cup DOMAIN form_args.kwargs
        /\ Cardinality(GENERATED_KEYS) = 25
        /\ \A k \in DATE_KEYS \ DOMAIN form_args.kwargs :
               DateArg(k) = None => form_data[k] = ""
        /\ \A k \in RESERVED_KEYS \ DOMAIN form_args.kwargs : form_data[k] = ""

\* one date filter set, three unset, no extension field
C20_Witness ==
    /\ FormBuilt
    /\ form_args.kwargs = EmptyDict
    /\ form_args.opened_from = None
    /\ form_args.closed_to # None
    /\ form_data["openedFrom"] = ""
    /\ form_data["closedTo"] = form_args.closed_to
    /\ form_data["caseStatus"] = ""

\* C21: every extension field is in the submitted form with the extension's
\* value, whether or not the generated form has that key, and the keys that
\* no extension field names are the generated ones.
C21_ExtensionsMergedLast ==
    FormBuilt =>
        /\ \A k \in DOMAIN form_args.kwargs : k \in DOMAIN form_data
        /\ \A k \in DOMAIN form_args.kwargs : form_data[k] = form_args.kwargs[k]
        /\ DOMAIN form_data \ DOMAIN form_args.kwargs \subseteq GENERATED_KEYS

\* one extension field over a generated key that was set, one with a new key
C21_Witness ==
    /\ FormBuilt
    /\ form_args.divisions = Ids(<<"2">>)
    /\ form_args.kwargs = [divisions |-> "9", sortBy |-> "date"]
    /\ form_data["divisions"] = "9"
    /\ form_data["sortBy"] = "date"
    /\ "sortBy" \notin GENERATED_KEYS

\* ------------------------------------------------- the anti-forgery values
\* both values held, as a successful bootstrap leaves them
BothHeld == ~Falsy(csrf_token_body) /\ csrf_cookie_name # NoCookieName

C23_ExitCodes_Original ==
    cli.pc = "returned" =>
        /\ out.kind = "raised" => cli.ret = 1
        /\ out.kind = "returned" => cli.ret = 0
        /\ cli.closed

\* C23: search_command returns 1 when the client's search raised, 0 when it
\* completed and the results were written out, 1 when it completed and the
\* output file could not be written; in each case the client is closed when
\* search_command returns.
C23_ExitCodes ==
    cli.pc = "returned" =>
        /\ out.kind = "raised" => cli.ret = 1
        /\ (out.kind = "returned" /\ cli.written \in {"stdout", "file"}) => cli.ret = 0
        /\ (out.kind = "returned" /\ cli.written = ERR_OS) => cli.ret = 1
        /\ cli.ret \in {0, 1}
        /\ cli.closed

\* a command whose search was refused: exit 1, client closed
C23_Witness ==
    /\ cli.pc = "returned"
    /\ out = OutRaised(ERR_HTTP)
    /\ cli.ret = 1
    /\ cli.closed

\* ---------------------------------------------------- parse_case_details
Parsed == parse.pc = "parsed"

\* the three places a case number is looked for
TitlePrefix(soup) == Strip(FirstPart(Strip(soup.title.text)))
TitleTier(soup) == soup.title.present /\ LooksLikeCaseNumber(TitlePrefix(soup))
HeadingTier(soup) == soup.heading.present /\ GetText(soup.heading.text) # ""
ScriptTier(soup) == \E i \in 1..Len(soup.scripts) : soup.scripts[i].case_number # None

\* C24: the record's case number is the title prefix when that looks like a
\* case number; otherwise the case heading's text; otherwise the first
\* `var caseNumber` of the scripts; and when all three fail the record has
\* no case_number.
C24_ThreeTiers ==
    Parsed =>
        LET soup == parse.soup
            d == parse.case_data
            Is(v) == "case_number" \in DOMAIN d /\ d["case_number"] = v
        IN  /\ TitleTier(soup) => Is(Concat(TitlePrefix(soup)))
            /\ (~TitleTier(soup) /\ HeadingTier(soup)) => Is(GetText(soup.heading.text))
            /\ (~TitleTier(soup) /\ ~HeadingTier(soup) /\ ScriptTier(soup)) =>
                   Is(ScriptCaseNumber(soup.scripts))
            /\ (~TitleTier(soup) /\ ~HeadingTier(soup) /\ ~ScriptTier(soup)) =>
                   "case_number" \notin DOMAIN d

\* the rows of the generic detail tables that carry a label and a value, each
\* named by its table's and its row's position in the document
DetailRowAt(soup, o) == TableRows(soup.tables[o[1]])[o[2]]
DetailRows(soup) ==
    {o \in UNION {{<<i, j>> : j \in 1..Len(TableRows(soup.tables[i]))} :
                     i \in 1..Len(soup.tables)} :
        /\ soup.tables[o[1]].class_table
        /\ soup.tables[o[1]].id # DOCKETS_TABLE_ID
        /\ Len(DetailRowAt(soup, o)) >= 2
        /\ LabelText(DetailRowAt(soup, o)[1].text) # ""
        /\ GetText(DetailRowAt(soup, o)[2].text) # ""}
DetailKey(soup, o) == LabelKey(DetailRowAt(soup, o)[1].text)
Before(o, q) == o[1] < q[1] \/ (o[1] = q[1] /\ o[2] < q[2])
OtherKeys == {"case_number", "parties", "charges", "docket_history"}

\* C25: every label of a generic detail table is stored with the value of its
\* last row in document order; the docket table's rows, rows of fewer than
\* two cells and rows with an empty label or value store nothing.
C25_LastRowWins ==
    Parsed =>
        LET soup == parse.soup
            d == parse.case_data
            rows == DetailRows(soup)
        IN  /\ \A o \in rows :
                  (\A q \in rows : DetailKey(soup, q) = DetailKey(soup, o) => ~Before(o, q))
                      => /\ DetailKey(soup, o) \in DOMAIN d
                         /\ d[DetailKey(soup, o)] = GetText(DetailRowAt(soup, o)[2].text)
            /\ DOMAIN d \ OtherKeys \subseteq {DetailKey(soup, o) : o \in rows}

\* the same label in two tables, a row without a value, and between them a
\* docket table whose rows are left out
C25_Witness ==
    /\ Parsed
    /\ parse.soup.tables = <<StatusTable, LabelledDockets, ClosedTable>>
    /\ parse.case_data["case_status"] = "Closed"
    /\ parse.case_data["judge"] = "Smith"
    /\ "notes" \notin DOMAIN parse.case_data
    /\ "01/02/2024" \notin DOMAIN parse.case_data

\* ------------------------------------------------------- the docket rows
\* the docket table of a soup, its header keys and its body rows with cells
SoupDockets(soup) == FindPageTable(soup.tables, DOCKETS_TABLE_ID)
SoupHeaders(soup) ==
    IF SoupDockets(soup) = NoTable THEN << >>
    ELSE [i \in 1..Len(SoupDockets(soup).thead) |-> HeaderKey(SoupDockets(soup).thead[i])]
SoupBodyRows(soup) ==
    IF SoupDockets(soup) = NoTable THEN << >>
    ELSE SelectSeq(SoupDockets(soup).tbody, LAMBDA cells : cells # << >>)
ParsedDockets == Get(parse.case_data, "docket_history", << >>)

\* the id an image marker gives: its rel, else its id without `img_`
MarkerId(cells) ==
    IF cells[1].img = NoImg THEN ""
    ELSE IF cells[1].img.rel # << >> THEN cells[1].img.rel[1]
    ELSE Concat(SelectSeq(cells[1].img.id, LAMBDA t : t # "img_"))

Zipped(headers, cells) == headers # << >> /\ Len(headers) = Len(cells)
ColumnKeys(cells) == {"column_" \o ToString(i - 1) : i \in 1..Len(cells)}

\* what holds of an entry whatever its keys: the column_N keys of a row that
\* is not zipped, and the id
EntryColumnsAndId(headers, cells, e) ==
    /\ ~Zipped(headers, cells) =>
          /\ DOMAIN e = ColumnKeys(cells) \cup {"id"}
          /\ \A i \in 1..Len(cells) :
                e["column_" \o ToString(i - 1)] = GetText(cells[i].text)
    /\ "id" \in DOMAIN e
    /\ e["id"] = MarkerId(cells)

\* C26 as stated: a row with as many cells as there are headers has the
\* header keys, each with the text of the cell at its position; any other
\* row has column_0, column_1, ...; both have the id of the image marker.
C26_DocketRowKeys_Original ==
    Parsed =>
        LET headers == SoupHeaders(parse.soup)
            rows == SoupBodyRows(parse.soup)
        IN  /\ Len(ParsedDockets) = Len(rows)
            /\ \A r \in 1..Len(rows) :
                  LET cells == rows[r]
                      e == ParsedDockets[r]
                  IN  /\ EntryColumnsAndId(headers, cells, e)
                      /\ Zipped(headers, cells) =>
                            /\ DOMAIN e = {headers[i] : i \in 1..Len(headers)} \cup {"id"}
                            /\ \A i \in 1..Len(cells) :
                                  headers[i] # "id" =>
                                      e[headers[i]] = GetText(cells[i].text)

\* C26: a row with as many cells as there are headers has the header keys
\* that are not empty, each with the text of the cell at its position (an
\* empty header key is dropped); any other row has column_0, column_1, ...;
\* both have the id of the image marker.
C26_DocketRowKeys ==
    Parsed =>
        LET headers == SoupHeaders(parse.soup)
            rows == SoupBodyRows(parse.soup)
        IN  /\ Len(ParsedDockets) = Len(rows)
            /\ \A r \in 1..Len(rows) :
                  LET cells == rows[r]
                      e == ParsedDockets[r]
                  IN  /\ EntryColumnsAndId(headers, cells, e)
                      /\ Zipped(headers, cells) =>
                            /\ DOMAIN e =
                                  ({headers[i] : i \in 1..Len(headers)} \ {""}) \cup {"id"}
                            /\ \A i \in 1..Len(cells) :
                                  headers[i] \notin {"", "id"} =>
                                      e[headers[i]] = GetText(cells[i].text)

\* a table with a short row and a full row: the first keyed by position with
\* the id from the image's id attribute, the second by the headers
C26_Witness ==
    /\ Parsed
    /\ parse.soup.tables = <<ShortRowDockets>>
    /\ ParsedDockets =
          << [column_0 |-> "", column_1 |-> "09/10/2024", id |-> "700"],
             [date |-> "11/12/2024", description |-> "BOND", id |-> ""] >>

\* a soup without a docket table, or whose docket table has no body row
NoDocketRows == SoupBodyRows(parse.soup) = << >>

\* C27 as stated: from a document with no docket table, or with a docket
\* table that has no body rows, the record's docket_history is the empty
\* sequence.
C27_EmptyDocketHistory_Original ==
    (Parsed /\ NoDocketRows) =>
        /\ "docket_history" \in DOMAIN parse.case_data
        /\ parse.case_data["docket_history"] = << >>

\* C27: from a document with no docket table, or with a docket table that
\* has no body rows, the record has no docket_history at all, and the rest
\* of the record is returned without an error.
C27_NoDocketHistory ==
    (Parsed /\ NoDocketRows) => "docket_history" \notin DOMAIN parse.case_data

\* a docket table with headers and no body, beside a detail table
C27_Witness ==
    /\ Parsed
    /\ parse.soup.tables = <<NoBodyDockets, StatusTable>>
    /\ SoupDockets(parse.soup) = NoBodyDockets
    /\ DOMAIN parse.case_data \ {"case_number"} = {"case_status", "judge"}

\* ------------------------------------------------ a bootstrap that fails
\* this step is a bootstrap ending in the missing-cookie or the
\* missing-token error
BootstrapFails ==
    /\ Len(trace') = Len(trace) + 1
    /\ Last(trace').op = "landing_get"
    /\ Last(trace').outcome \in {ERR_NO_COOKIE, ERR_NO_TOKEN}

\* C28: a bootstrap that fails for want of the cookie or of the token leaves
\* csrf_cookie_name and csrf_token_body as they were before it ran.
C28_FailedBootstrapWritesNothing ==
    [][BootstrapFails => /\ csrf_cookie_name' = csrf_cookie_name
                         /\ csrf_token_body' = csrf_token_body]_vars

\* ------------------------------------- the requests of a details call
\* the positions, in the current call, of the requests of one kind
OpIdx(op) == {i \in (call_start + 1)..Len(trace) : trace[i].op = op}

\* the request at position i failed with an HTTP error and the call ended
\* there, raising it
EndsCallAt(i) ==
    /\ i = Len(trace)
    /\ opc = "idle"
    /\ out = OutRaised(ERR_HTTP)

\* C29: in a details call the details GET comes first, the summary GET
\* directly after it and the dockets GET directly after that, each at most
\* once; a details GET or summary GET that fails with an HTTP error is the
\* call's last request, the call raises that error and returns no record.
C29_FragmentOrder ==
    /\ Cardinality(OpIdx("details_get")) <= 1
    /\ \A s \in OpIdx("summary_get") :
          /\ s - 1 \in OpIdx("details_get")
          /\ trace[s - 1].outcome = "ok"
    /\ \A k \in OpIdx("dockets_get") :
          /\ k - 1 \in OpIdx("summary_get")
          /\ trace[k - 1].outcome = "ok"
    /\ \A i \in OpIdx("details_get") \cup OpIdx("summary_get") :
          trace[i].outcome = ERR_HTTP => EndsCallAt(i)

\* the details page came, the summary was refused, and the call ended
C29_Witness ==
    /\ ocall.op = "get_case_details_with_dockets"
    /\ Len(trace) = call_start + 2
    /\ trace[call_start + 1].op = "details_get"
    /\ trace[call_start + 1].outcome = "ok"
    /\ Last(trace).op = "summary_get"
    /\ Last(trace).outcome = ERR_HTTP
    /\ out = OutRaised(ERR_HTTP)
    /\ opc = "idle"

\* ------------------------------------ the case number and url of a record
\* a finished details call that returned a record
RecordReturned == opc = "idle" /\ out.kind = "returned" /\ docs.details # NoDoc

\* the summary fragment was merged and stored something under this key
SummaryStores(k) ==
    docs.summary # NoDoc /\ k \in DOMAIN ParseCaseSummary(docs.summary)

\* C30: a returned record whose details page gave a case number by the
\* three tiers has that case number, and its url is the final URL of the
\* details fetch: neither a detail row nor a summary pair has replaced them.
C30_CaseNumberAndUrlKept ==
    RecordReturned =>
        /\ ~Falsy(ExtractCaseNumber(docs.details)) =>
              /\ "case_number" \in DOMAIN ReturnedRecord
              /\ ReturnedRecord["case_number"] = ExtractCaseNumber(docs.details)
        /\ "url" \in DOMAIN ReturnedRecord
        /\ ~SummaryStores("url")
        /\ ReturnedRecord["url"] = docs.details_url

====
